---- MODULE Spec2Model ----
(***************************************************************************)
(* Verification model of the AI Chief of Staff microservices:              *)
(*   services/ai-intelligence, services/nl-parser,                         *)
(*   services/pattern-recognition, services/voice-processor and the        *)
(*   shared libraries services/shared/{config_manager,ai_providers}.py.    *)
(*                                                                         *)
(* Every service is its own process (its own uvicorn.run) talking to one   *)
(* shared Redis.  A behaviour of Spec follows ONE service process, chosen  *)
(* in Init together with the module-level state its start-up code leaves   *)
(* behind; the cache keys of the services carry different prefixes, so     *)
(* the other processes never touch the keys of the one that is followed.   *)
(* A request handler has no suspension point between its first and last    *)
(* statement that matters here (the Redis and vendor clients are the       *)
(* synchronous ones), so a handler is one action.                          *)
(***************************************************************************)
EXTENDS Integers, Sequences, FiniteSets, TLC

VARIABLES
    service,                  \* the service process that is followed
    USE_SHARED_LIBS,          \* ai-intelligence: the shared imports succeeded
    ai_client,                \* ai-intelligence: kind of client, or "None"
    redis_client,             \* the process's redis_client is not None
    db_pool,                  \* pattern-recognition: db_pool is not None
    ai_provider,              \* voice-processor: configured provider
    openai_api_key,           \* voice-processor: openai_api_key is truthy
    FASTER_WHISPER_AVAILABLE, \* voice-processor: faster_whisper imported
    storage_manager,          \* voice-processor: storage_manager is not None
    redis,                    \* the shared key-value store: key -> entry
    last,                     \* what the last finished request did and answered
    _conn,                    \* ConfigManager: self._conn is a connection
    _cache,                   \* ConfigManager: self._cache
    _cache_time,              \* ConfigManager: self._cache_time
    read_at,                  \* history: when each cached entry was read from the table
    table,                    \* the rows of the config table: key -> value
    environ,                  \* os.environ of the ConfigManager's process
    now,                      \* datetime.now(), in seconds
    got,                      \* what the last ConfigManager call did and answered
    installed,                \* provider selection: what the process can reach
    trying,                   \* provider selection: index of the provider tried next
    chosen,                   \* provider selection: how the call ended
    storage_type,             \* StorageManager: 'local' or 's3'
    files,                    \* the local filesystem: path -> content
    objects,                  \* the S3 bucket of the manager: key -> body
    saved,                    \* history: the paths save_recording has returned
    did,                      \* what the last StorageManager call did and answered
    pending,                  \* ai-intelligence: the requests accepted and not yet handled
    served                    \* ai-intelligence: what the handled requests did, in order

svcVars == <<service, USE_SHARED_LIBS, ai_client, redis_client, db_pool,
             ai_provider, openai_api_key, FASTER_WHISPER_AVAILABLE,
             storage_manager, redis, last>>

cfgVars == <<_conn, _cache, _cache_time, read_at, table, environ, now, got>>

pvVars == <<installed, trying, chosen>>

stVars == <<storage_type, files, objects, saved, did>>

rqVars == <<pending, served>>

vars == <<svcVars, cfgVars, pvVars, stVars, rqVars>>

config == <<service, USE_SHARED_LIBS, ai_client, redis_client, db_pool,
            ai_provider, openai_api_key, FASTER_WHISPER_AVAILABLE,
            storage_manager>>

(***************************************************************************)
(* Python values.  Optional[x] is <<>> (None) or <<x>>.  A JSON value is a *)
(* record tagged with its Python type: a dict carries its items in f, a    *)
(* list in items, a string or a number its text in s.                      *)
(***************************************************************************)
None == <<>>
Some(v) == <<v>>

Dict(f) == [py |-> "dict", f |-> f]
List(s) == [py |-> "list", items |-> s]
Str(s) == [py |-> "str", s |-> s]
Num(s) == [py |-> "float", s |-> s]
Null == [py |-> "null"]

\* Python truth value of a JSON value: None, "", 0, {} and [] are falsy.
Truthy(v) ==
    CASE v.py = "dict" -> DOMAIN v.f # {}
      [] v.py = "list" -> v.items # <<>>
      [] v.py = "str" -> v.s # ""
      [] v.py = "float" -> v.s \notin {"0", "0.0"}
      [] v.py = "null" -> FALSE
      [] OTHER -> TRUE

\* d.get(k, default)
Get(d, k, default) == IF k \in DOMAIN d.f THEN d.f[k] ELSE default

\* json.dumps / json.loads: the text Redis holds is not the Python value.
\* The one thing json.dumps changes in the values of these services: the
\* int keys of focus_score_by_hour come back as strings.
Jsonify(v) ==
    IF v.py = "dict" /\ "focus_score_by_hour" \in DOMAIN v.f
    THEN Dict([v.f EXCEPT !.focus_score_by_hour.keys = "str"])
    ELSE v
json_dumps(v) == <<"json", Jsonify(v)>>
json_loads(t) == t[2]

\* d[k] = x on a dict
DictSet(f, k, x) == [j \in DOMAIN f \cup {k} |-> IF j = k THEN x ELSE f[j]]

(***************************************************************************)
(* Redis.  setex(key, ttl, text) stores the text with its time to live;    *)
(* the entry disappears when the ttl has run out (action Expire).          *)
(***************************************************************************)
RedisSetex(store, key, ttl, text) ==
    [k \in DOMAIN store \cup {key} |->
        IF k = key THEN [ttl |-> ttl, text |-> text] ELSE store[k]]

RedisDel(store, key) == [k \in DOMAIN store \ {key} |-> store[k]]

\* hashlib.md5(data).hexdigest(), taken to be collision-free: the digest
\* stands for exactly the data that was hashed.
md5(data) == data

\* f"{prefix}:{md5(data)}": a key is the prefix and the digest
get_cache_key(prefix, data) == <<prefix, md5(data)>>

\* cache_get: None without a client, on a Redis error (ok = FALSE) and on a
\* miss; the parsed value on a hit.
cache_get(store, key, ok) ==
    IF ~redis_client THEN None
    ELSE IF ~ok THEN None
    ELSE IF key \in DOMAIN store THEN Some(json_loads(store[key].text))
    ELSE None

\* a cache_set that stores nothing
cache_set_dropped(store, key, value, ttl, ok) == store

\* cache_set: the store after setex; unchanged without a client or on a
\* Redis error.
cache_set(store, key, value, ttl, ok) ==
    IF ~redis_client THEN store
    ELSE IF ~ok THEN store
    ELSE RedisSetex(store, key, ttl, json_dumps(value))

\* what Redis holds for the key when the lookup reaches it
Held(store, key, ok) ==
    IF redis_client /\ ok /\ key \in DOMAIN store
    THEN Some(json_loads(store[key].text)) ELSE None


(***************************************************************************)
(* What a request leaves behind for the properties to read.                *)
(*   events  : the cache helper calls and vendor calls, in program order   *)
(*             ("cache_get", "ai_call", "ai_raise", "cache_set")           *)
(*   held    : what Redis returned to the handler's own lookup             *)
(*   outcome : "return", "HTTPException", or "exception" (anything else    *)
(*             that leaves the handler)                                    *)
(***************************************************************************)
Obs(ep, input, held, events, outcome, status, body) ==
    [ep |-> ep, input |-> input, held |-> held, events |-> events,
     outcome |-> outcome, status |-> status, body |-> body]

NoBody == [py |-> "none"]
Idle == Obs("none", [none |-> TRUE], None, <<>>, "none", 0, NoBody)

Return(ep, input, held, events, body) ==
    Obs(ep, input, held, events, "return", 200, body)
HTTPException(ep, input, held, events, status_code) ==
    Obs(ep, input, held, events, "HTTPException", status_code, NoBody)
\* an exception that no handler code catches leaves the handler
Propagates(ep, input, held, events, type) ==
    Obs(ep, input, held, events, "exception", 0, [py |-> type])

(***************************************************************************)
(* The vendor's answer to one call: it raises, or it returns a text.  A    *)
(* text is prose or the JSON value it spells, bare or inside a ``` fence.  *)
(***************************************************************************)
Raise == [kind |-> "raise", fenced |-> FALSE, json |-> None, marks |-> "none"]
Text(fenced, json) ==
    [kind |-> "text", fenced |-> fenced, json |-> json, marks |-> "none"]
\* prose that spells no JSON value but holds a {...} or a [...] stretch
Prose(marks) == [kind |-> "text", fenced |-> FALSE, json |-> None, marks |-> marks]

AIOutcomes(values) ==
    {Raise} \cup {Text(fc, j) : fc \in BOOLEAN, j \in {None} \cup {Some(v) : v \in values}}

\* the result of a Python call: a value, or the exception it raised
Ok(v) == [exc |-> "None", val |-> Some(v)]
Exc(type) == [exc |-> type, val |-> None]

\* AnthropicProvider / OllamaProvider / BedrockProvider .complete_json:
\* the ``` fence is stripped, json.loads failures become ValueError.
complete_json_strip(o) ==
    IF o.kind = "raise" THEN Exc("APIError")
    ELSE IF o.json = None THEN Exc("ValueError")
    ELSE Ok(o.json[1])

\* OpenAIProvider.complete_json: json.loads of the raw content; whatever it
\* raises is re-raised as it is.
complete_json_openai(o) ==
    IF o.kind = "raise" THEN Exc("APIError")
    ELSE IF o.json = None \/ o.fenced THEN Exc("JSONDecodeError")
    ELSE Ok(o.json[1])

\* ai_client.complete_json on the shared provider object
complete_json(client, o) ==
    IF ~client.ready THEN Exc("RuntimeError")
    ELSE IF client.kind = "openai" THEN complete_json_openai(o)
    ELSE complete_json_strip(o)

\* a call that looks the cache up on its own before it reaches the vendor
CallEvents_lookup(client, o) ==
    IF ~client.ready THEN <<>>
    ELSE IF o.kind = "raise" THEN <<"cache_get", "ai_call", "ai_raise">>
    ELSE <<"cache_get", "ai_call">>

\* a call that is made a second time when the vendor raised
CallEvents_retry(client, o) ==
    IF ~client.ready THEN <<>>
    ELSE IF o.kind = "raise" THEN <<"ai_call", "ai_raise", "ai_call", "ai_raise">>
    ELSE <<"ai_call">>

\* the events of one complete_json call: no vendor call without a client
CallEvents(client, o) ==
    IF ~client.ready THEN <<>>
    ELSE IF o.kind = "raise" THEN <<"ai_call", "ai_raise">>
    ELSE <<"ai_call">>

NoClient == [kind |-> "None", ready |-> FALSE]


(***************************************************************************)
(* services/ai-intelligence/main.py                                        *)
(***************************************************************************)
\* what a handler hands back: the observation and the store it leaves
Done(obs, store) == [obs |-> obs, store |-> store]

EffortKeys == {"estimated_hours", "confidence", "reasoning", "breakdown"}

EffortSafeDefaults ==
    Dict([estimated_hours |-> Num("0.5"), confidence |-> Num("0.3"),
          reasoning |-> Str("Unable to parse AI response"),
          breakdown |-> List(<<>>)])

\* POST /estimate-effort
estimate_effort(description, context, getOk, o, setOk) ==
    LET ep == "/estimate-effort"
        input == [description |-> description, context |-> context]
    IN
    IF context = None
    THEN \* request.description + None
         Done(Propagates(ep, input, None, <<>>, "TypeError"), redis)
    ELSE
    LET cache_key == get_cache_key("effort", description \o context[1])
        cached == cache_get(redis, cache_key, getOk)
        held == Held(redis, cache_key, getOk)
        ev1 == <<"cache_get">>
    IN
    IF cached # None /\ Truthy(cached[1])
    THEN Done(Return(ep, input, held, ev1, cached[1]), redis)
    ELSE IF ai_client = NoClient
    THEN Done(HTTPException(ep, input, held, ev1, 503), redis)
    ELSE IF ~USE_SHARED_LIBS
    THEN \* get_ai_model was never imported: NameError, caught below
         Done(HTTPException(ep, input, held, ev1, 500), redis)
    ELSE
    LET r == complete_json(ai_client, o)
        ev2 == ev1 \o CallEvents(ai_client, o)
    IN
    IF r.exc = "JSONDecodeError"
    THEN Done(Return(ep, input, held, ev2, EffortSafeDefaults), redis)
    ELSE IF r.exc # "None"
    THEN Done(HTTPException(ep, input, held, ev2, 500), redis)
    ELSE
    LET result == r.val[1] IN
    IF ~(result.py = "dict" /\ EffortKeys \subseteq DOMAIN result.f)
    THEN \* ValueError("Invalid response format"), or TypeError
         Done(HTTPException(ep, input, held, ev2, 500), redis)
    ELSE Done(Return(ep, input, held, ev2 \o <<"cache_set">>, result),
              cache_set(redis, cache_key, result, 3600, setOk))

EnergyDescriptions ==
    [deep_work |-> "High cognitive load, requires focus",
     focused |-> "Medium concentration required",
     administrative |-> "Low cognitive load, routine work",
     collaborative |-> "Social energy, meetings",
     creative |-> "Creative/divergent thinking"]

EnergySafeDefault ==
    Dict([energy_level |-> Str("administrative"), confidence |-> Num("0.3"),
          description |-> Str("Low cognitive load, routine work")])

\* POST /classify-energy
classify_energy(description, getOk, o, setOk) ==
    LET ep == "/classify-energy"
        input == [description |-> description]
        cache_key == get_cache_key("energy", description)
        cached == cache_get(redis, cache_key, getOk)
        held == Held(redis, cache_key, getOk)
        ev1 == <<"cache_get">>
    IN
    IF cached # None /\ Truthy(cached[1])
    THEN Done(Return(ep, input, held, ev1, cached[1]), redis)
    ELSE IF ai_client = NoClient
    THEN Done(HTTPException(ep, input, held, ev1, 503), redis)
    ELSE IF ~USE_SHARED_LIBS
    THEN Done(Return(ep, input, held, ev1, EnergySafeDefault), redis)
    ELSE
    LET r == complete_json(ai_client, o)
        ev2 == ev1 \o CallEvents(ai_client, o)
    IN
    IF r.exc # "None"
    THEN Done(Return(ep, input, held, ev2, EnergySafeDefault), redis)
    ELSE
    LET result == r.val[1] IN
    IF ~(/\ result.py = "dict" /\ "energy_level" \in DOMAIN result.f
         /\ result.f["energy_level"].py \notin {"list", "dict"})
    THEN \* TypeError or KeyError on result["energy_level"], or an
         \* unhashable level in descriptions.get
         Done(Return(ep, input, held, ev2, EnergySafeDefault), redis)
    ELSE
    LET level == result.f["energy_level"]
        \* descriptions.get(level, "Unknown"): only a str can be a key of it
        described == Dict(DictSet(result.f, "description",
                        IF level.py = "str" /\ level.s \in DOMAIN EnergyDescriptions
                        THEN Str(EnergyDescriptions[level.s]) ELSE Str("Unknown")))
    IN Done(Return(ep, input, held, ev2 \o <<"cache_set">>, described),
            cache_set(redis, cache_key, described, 3600, setOk))

NoClusters == Dict([clusters |-> List(<<>>)])

\* POST /cluster-tasks
cluster_tasks(tasks, o) ==
    LET ep == "/cluster-tasks"
        input == [tasks |-> tasks]
    IN
    IF tasks = <<>>
    THEN Done(Return(ep, input, None, <<>>, NoClusters), redis)
    ELSE IF ai_client = NoClient
    THEN Done(HTTPException(ep, input, None, <<>>, 503), redis)
    ELSE IF ~USE_SHARED_LIBS
    THEN \* get_ai_model was never imported: NameError, caught
         Done(Return(ep, input, None, <<>>, NoClusters), redis)
    ELSE
    LET r == complete_json(ai_client, o)
        ev == CallEvents(ai_client, o)
    IN
    IF r.exc # "None"
    THEN Done(Return(ep, input, None, ev, NoClusters), redis)
    ELSE
    LET result == r.val[1] IN
    IF ~(result.py = "dict" /\ "clusters" \in DOMAIN result.f)
    THEN \* len(result['clusters']) raises, caught
         Done(Return(ep, input, None, ev, NoClusters), redis)
    ELSE Done(Return(ep, input, None, ev, result), redis)


(***************************************************************************)
(* services/nl-parser/main.py : text helpers                               *)
(* Request texts of the model are lower-case ASCII, so text.lower() is     *)
(* the text itself.                                                        *)
(***************************************************************************)
Char(text, i) == SubSeq(text, i, i)
Digit == {"0", "1", "2", "3", "4", "5", "6", "7", "8", "9"}
DigitValue(c) ==
    CASE c = "0" -> 0 [] c = "1" -> 1 [] c = "2" -> 2 [] c = "3" -> 3
      [] c = "4" -> 4 [] c = "5" -> 5 [] c = "6" -> 6 [] c = "7" -> 7
      [] c = "8" -> 8 [] c = "9" -> 9
IsDigitAt(text, i) == i >= 1 /\ i <= Len(text) /\ Char(text, i) \in Digit
\* text[i:].startswith(sub)
StartsAt(text, i, sub) ==
    i >= 1 /\ i + Len(sub) - 1 <= Len(text) /\ SubSeq(text, i, i + Len(sub) - 1) = sub
\* sub in text
Contains(text, sub) == \E i \in 1..Len(text) : StartsAt(text, i, sub)
\* text[:n]
Prefix(text, n) == SubSeq(text, 1, IF Len(text) < n THEN Len(text) ELSE n)

\* re.search(r'(\d{1,2}):?(\d{2})?\s*(am|pm)?', text): the leftmost digit
\* starts the match; hour is one or two digits, minute two digits after an
\* optional colon, then any blanks and am/pm.  <<>> when no digit.
TimePeriod(text, hour, minute, d) ==
    Some([hour |-> hour, minute |-> minute,
          period |-> IF StartsAt(text, d, "pm") THEN "pm"
                     ELSE IF StartsAt(text, d, "am") THEN "am" ELSE "none"])
\* \s* from position c on
SkipBlanks(text, c) ==
    CHOOSE k \in c..(Len(text) + 1) :
        /\ \A m \in c..(k - 1) : Char(text, m) = " "
        /\ ~StartsAt(text, k, " ")
\* without two more digits the optional colon still matches
TimeMinute(text, hour, b, hasMin) ==
    TimePeriod(text, hour,
               IF hasMin THEN 10 * DigitValue(Char(text, b)) + DigitValue(Char(text, b + 1))
               ELSE 0,
               SkipBlanks(text, IF hasMin THEN b + 2 ELSE b))
TimeColon(text, hour, b) ==
    TimeMinute(text, hour, b, IsDigitAt(text, b) /\ IsDigitAt(text, b + 1))
TimeHour(text, i, two) ==
    TimeColon(text,
              IF two THEN 10 * DigitValue(Char(text, i)) + DigitValue(Char(text, i + 1))
              ELSE DigitValue(Char(text, i)),
              (IF two THEN i + 2 ELSE i + 1)
                  + (IF StartsAt(text, IF two THEN i + 2 ELSE i + 1, ":") THEN 1 ELSE 0))
FirstDigit(text) ==
    CHOOSE k \in 1..Len(text) :
        IsDigitAt(text, k) /\ \A m \in 1..(k - 1) : ~IsDigitAt(text, m)
TimeMatch(text) ==
    IF \A i \in 1..Len(text) : ~IsDigitAt(text, i) THEN None
    ELSE TimeHour(text, FirstDigit(text), IsDigitAt(text, FirstDigit(text) + 1))

\* now.replace(hour=h, minute=m): ValueError outside 0..23 / 0..59
ReplaceTime(day, tm) ==
    LET hour == IF tm.period = "pm" /\ tm.hour < 12 THEN tm.hour + 12 ELSE tm.hour IN
    IF hour > 23 \/ tm.minute > 59 THEN Exc("ValueError")
    ELSE Ok([day |-> day, hour |-> hour, minute |-> tm.minute])

\* re.search(r'in (\d+) days?', text) and the same for hours
InUnit(text, unit) ==
    \E i \in 1..Len(text), j \in 1..Len(text) :
        /\ StartsAt(text, i, "in ")
        /\ j >= i + 3
        /\ \A k \in (i + 3)..j : IsDigitAt(text, k)
        /\ StartsAt(text, j + 1, " " \o unit)

Weekdays == <<"monday", "tuesday", "wednesday", "thursday", "friday",
              "saturday", "sunday">>

\* parse_relative_date: Ok of the deadline as (day, hour, minute), the day
\* named relative to now; val = None when the text names no date.
parse_relative_date(text) ==
    IF Contains(text, "today")
    THEN IF TimeMatch(text) # None THEN ReplaceTime("today", TimeMatch(text)[1])
         ELSE Ok([day |-> "today", hour |-> 17, minute |-> 0])
    ELSE IF Contains(text, "tomorrow")
    THEN IF TimeMatch(text) # None THEN ReplaceTime("tomorrow", TimeMatch(text)[1])
         ELSE Ok([day |-> "tomorrow", hour |-> 17, minute |-> 0])
    ELSE IF Contains(text, "next week")
    THEN Ok([day |-> "next week", hour |-> 17, minute |-> 0])
    ELSE IF InUnit(text, "day")
    THEN Ok([day |-> "in days", hour |-> 17, minute |-> 0])
    ELSE IF InUnit(text, "hour")
    THEN Ok([day |-> "in hours", hour |-> 0, minute |-> 0])
    ELSE IF \E i \in 1..Len(Weekdays) : Contains(text, Weekdays[i])
    THEN LET i == CHOOSE k \in 1..Len(Weekdays) :
                      Contains(text, Weekdays[k])
                      /\ \A m \in 1..(k - 1) : ~Contains(text, Weekdays[m])
         IN Ok([day |-> Weekdays[i], hour |-> 17, minute |-> 0])
    ELSE [exc |-> "None", val |-> None]

AnyIn(text, words) == \E w \in words : Contains(text, w)

extract_priority(text) ==
    IF AnyIn(text, {"urgent", "asap", "critical", "!!!"}) THEN "urgent"
    ELSE IF AnyIn(text, {"high priority", "important", "high"}) THEN "high"
    ELSE IF AnyIn(text, {"low priority", "low", "when possible"}) THEN "low"
    ELSE "medium"

ProjectKeywords ==
    {<<"meeting", "meetings">>, <<"email", "communication">>,
     <<"report", "reports">>, <<"review", "reviews">>, <<"plan", "planning">>,
     <<"call", "calls">>, <<"presentation", "presentations">>}

WordChar ==
    Digit \cup {"_", "a", "b", "c", "d", "e", "f", "g", "h", "i", "j", "k", "l",
                "m", "n", "o", "p", "q", "r", "s", "t", "u", "v", "w", "x", "y", "z"}

\* re.findall(r'#(\w+)', text)
Hashtags(text) ==
    {SubSeq(text, i + 1, j) : i \in 1..Len(text), j \in 1..Len(text)} \cap
    {w \in {SubSeq(text, i + 1, j) : i \in 1..Len(text), j \in 1..Len(text)} :
        \E i \in 1..Len(text) :
            /\ Char(text, i) = "#"
            /\ Len(w) >= 1
            /\ StartsAt(text, i + 1, w)
            /\ \A k \in 1..Len(w) : Char(w, k) \in WordChar
            /\ ~(i + Len(w) + 1 <= Len(text) /\ Char(text, i + Len(w) + 1) \in WordChar)}

extract_tags(text) ==
    Hashtags(text) \cup {p[2] : p \in {q \in ProjectKeywords : Contains(text, q[1])}}


\* re.search(r'(\d{1,4}(?:\.\d{1,2})?)\s*(?:hours?|hrs?)', text[:500]): the
\* digits of the leftmost match (request texts of the model hold no
\* decimal point), None without a match.
HoursSpans(text) ==
    {p \in (1..Len(text)) \X (1..Len(text)) :
        /\ p[1] <= p[2] /\ p[2] - p[1] + 1 <= 4
        /\ \A k \in p[1]..p[2] : IsDigitAt(text, k)
        /\ \/ StartsAt(text, p[2] + 1, "hour") \/ StartsAt(text, p[2] + 1, "hr")
           \/ StartsAt(text, p[2] + 1, " hour") \/ StartsAt(text, p[2] + 1, " hr")}

HoursMatch(text) ==
    LET t == Prefix(text, 500) IN
    IF HoursSpans(t) = {} THEN None
    ELSE LET p == CHOOSE q \in HoursSpans(t) : \A r \in HoursSpans(t) : q[1] <= r[1]
         IN Some(SubSeq(t, p[1], p[2]))

(***************************************************************************)
(* What the handlers that search the raw answer find in it.                *)
(***************************************************************************)
\* re.search(r'\{[\s\S]*\}', content) then json.loads of the match: None
\* without a match, else the value or the JSONDecodeError.  A JSON list
\* holds braces when it holds dicts: from the first "{" to the last "}" is
\* one dict for a single item and no JSON value for more items.
search_braces(o) ==
    IF o.json = None
    THEN IF o.marks = "braces" THEN Some(Exc("JSONDecodeError")) ELSE None
    ELSE LET v == o.json[1] IN
         IF v.py = "dict" THEN Some(Ok(v))
         ELSE IF v.py = "list" /\ \E i \in 1..Len(v.items) : v.items[i].py = "dict"
         THEN IF Len(v.items) = 1 THEN Some(Ok(v.items[1]))
              ELSE Some(Exc("JSONDecodeError"))
         ELSE None

\* re.search(r'\[[\s\S]*\]', content) then json.loads of the match.  A JSON
\* dict holds brackets when one of its values is a list: the match is that
\* list when it is the only one.
search_brackets(o) ==
    IF o.json = None
    THEN IF o.marks = "brackets" THEN Some(Exc("JSONDecodeError")) ELSE None
    ELSE LET v == o.json[1] IN
         IF v.py = "list" THEN Some(Ok(v))
         ELSE IF v.py = "dict"
         THEN LET lists == {k \in DOMAIN v.f : v.f[k].py = "list"} IN
              IF lists = {} THEN None
              ELSE IF Cardinality(lists) = 1
              THEN Some(Ok(v.f[CHOOSE k \in lists : TRUE]))
              ELSE Some(Exc("JSONDecodeError"))
         ELSE None


(***************************************************************************)
(* services/nl-parser/main.py : handlers                                   *)
(***************************************************************************)
\* x or y
Or(x, y) == IF Truthy(x) THEN x ELSE y

\* the pydantic model ParsedTask; .dict() is the same fields as a dict
ParsedTask(title, description, deadline, priority, estimated_hours, tags, assignee, project, confidence) ==
    [py |-> "ParsedTask",
     f |-> [title |-> title, description |-> description, deadline |-> deadline,
            priority |-> priority, estimated_hours |-> estimated_hours,
            tags |-> tags, assignee |-> assignee, project |-> project,
            confidence |-> confidence]]

AsDict(model) == Dict(model.f)

\* a list of tags, its order left open by list(set(...))
TagList(tags) == [py |-> "list", items |-> <<>>, elems |-> tags]
TagsOf(v) == IF "elems" \in DOMAIN v THEN v.elems
             ELSE {v.items[i].s : i \in 1..Len(v.items)}

ParseFallback_unsure(text) ==
    ParsedTask(Str(Prefix(text, 50)), Null, Null, Str("medium"), Null,
               TagList({}), Null, Null, Num("0.6"))

\* ParsedTask(title=request.text[:50], priority="medium", confidence=0.3)
ParseFallback(text) ==
    ParsedTask(Str(Prefix(text, 50)), Null, Null, Str("medium"), Null,
               TagList({}), Null, Null, Num("0.3"))

Deadline(d) == IF d.val = None THEN Null ELSE [py |-> "isoformat", at |-> d.val[1]]

\* the request texts of the model
Texts == {"call bob", "ship today", "99 today"}
\* the pieces of a bulk text: "x" is one of the pieces that are dropped
BulkLines == {"x", "call bob", "ship today"}

\* the four extractions parse_task makes from the text alone, tabulated
\* over the request texts
Extracted ==
    [text \in BulkLines \cup Texts |->
        [deadline |-> parse_relative_date(text),
         priority |-> extract_priority(text),
         tags |-> extract_tags(text),
         hours |-> HoursMatch(text)]]

\* POST /parse-task, also called by parse_bulk for every line
parse_task(store, text, getOk, o, setOk) ==
    LET ep == "/parse-task"
        input == [text |-> text]
        cache_key == get_cache_key("parse", text)
        cached == cache_get(store, cache_key, getOk)
        held == Held(store, cache_key, getOk)
        ev1 == <<"cache_get">>
        d == Extracted[text].deadline
    IN
    IF cached # None /\ Truthy(cached[1])
    THEN Done(Return(ep, input, held, ev1, cached[1]), store)
    ELSE IF d.exc # "None"
    THEN Done(Return(ep, input, held, ev1, ParseFallback(text)), store)
    ELSE
    LET deadline == Deadline(d)
        priority == Str(Extracted[text].priority)
        tags == Extracted[text].tags
        estimated_hours == IF Extracted[text].hours = None THEN Null
                           ELSE Num(Extracted[text].hours[1])
        ev2 == ev1 \o (IF o.kind = "raise" THEN <<"ai_call", "ai_raise">>
                       ELSE <<"ai_call">>)
        json_match == search_braces(o)
    IN
    IF o.kind = "raise"
    THEN Done(Return(ep, input, held, ev2, ParseFallback(text)), store)
    ELSE IF json_match = None
    THEN LET result == ParsedTask(Str(Prefix(text, 50)),
                           IF Len(text) > 50 THEN Str(text) ELSE Null,
                           deadline, priority, estimated_hours, TagList(tags),
                           Null, Null, Num("0.6"))
         IN Done(Return(ep, input, held, ev2 \o <<"cache_set">>, result),
                 cache_set(store, cache_key, AsDict(result), 1800, setOk))
    ELSE IF json_match[1].exc # "None"
    THEN Done(Return(ep, input, held, ev2, ParseFallback(text)), store)
    ELSE
    LET parsed == json_match[1].val[1]
        title == Get(parsed, "title", Str(Prefix(text, 50)))
        ptags == Get(parsed, "tags", List(<<>>))
    IN
    IF title.py # "str" \/ ptags.py # "list"
    THEN \* pydantic ValidationError, or TypeError on tags + tags
         Done(Return(ep, input, held, ev2, ParseFallback(text)), store)
    ELSE
    LET result == ParsedTask(title,
                      Get(parsed, "description", Null),
                      Or(Get(parsed, "deadline", Null), deadline),
                      Or(Get(parsed, "priority", Null), priority),
                      Or(Get(parsed, "estimated_hours", Null), estimated_hours),
                      TagList(TagsOf(ptags) \cup tags),
                      Get(parsed, "assignee", Null),
                      Get(parsed, "project", Null),
                      Num("0.9"))
    IN Done(Return(ep, input, held, ev2 \o <<"cache_set">>, result),
            cache_set(store, cache_key, AsDict(result), 1800, setOk))


\* the environment of one parse_task call: Redis on the lookup, the
\* vendor's answer, Redis on the write
Env(getOk, o, setOk) == [getOk |-> getOk, o |-> o, setOk |-> setOk]

\* results = []; for task_text in tasks_text[:10]: results.append(await
\* parse_task(...)) -- the store, the events and the results after the
\* lines i..Len(tasks)
RECURSIVE BulkFallback(_, _, _, _, _, _)
BulkFallback(store, tasks, envs, i, events, results) ==
    IF i > Len(tasks) THEN [store |-> store, events |-> events, results |-> results]
    ELSE LET r == parse_task(store, tasks[i], envs[i].getOk, envs[i].o, envs[i].setOk)
         IN BulkFallback(r.store, tasks, envs, i + 1, events \o r.obs.events,
                         Append(results, r.obs.body))

\* one entry of the bulk answer as a ParsedTask (confidence 0.85)
BulkItem(parsed, task_text) ==
    ParsedTask(Get(parsed, "title", Str(Prefix(task_text, 50))),
               Get(parsed, "description", Null),
               Get(parsed, "deadline", Null),
               Get(parsed, "priority", Str("medium")),
               Get(parsed, "estimated_hours", Null),
               Get(parsed, "tags", List(<<>>)),
               Get(parsed, "assignee", Null),
               Get(parsed, "project", Null),
               Num("0.85"))

\* what pydantic accepts for ParsedTask in the bulk loop
BulkItemValid(parsed) ==
    /\ parsed.py = "dict"
    /\ Get(parsed, "title", Str("")).py = "str"
    /\ Get(parsed, "tags", List(<<>>)).py = "list"

Min(a, b) == IF a < b THEN a ELSE b

\* POST /parse-bulk; lines are the pieces re.split leaves, stripped of
\* blanks and list markers
parse_bulk(lines, o, envs) ==
    LET ep == "/parse-bulk"
        input == [lines |-> lines]
        tasks_text == SelectSeq(lines, LAMBDA line : Len(line) > 3)
        ev == IF o.kind = "raise" THEN <<"ai_call", "ai_raise">> ELSE <<"ai_call">>
        json_match == search_brackets(o)
    IN
    IF tasks_text = <<>>
    THEN Done(Return(ep, input, None, <<>>, List(<<>>)), redis)
    ELSE IF o.kind = "raise"
    THEN Done(HTTPException(ep, input, None, ev, 500), redis)
    ELSE IF json_match = None
    THEN LET fb == BulkFallback(redis, SubSeq(tasks_text, 1, Min(Len(tasks_text), 10)),
                                envs, 1, ev, <<>>)
         IN Done(Return(ep, input, None, fb.events, List(fb.results)), fb.store)
    ELSE IF json_match[1].exc # "None"
    THEN Done(HTTPException(ep, input, None, ev, 500), redis)
    ELSE
    LET parsed_list == json_match[1].val[1].items
        n == Min(Len(parsed_list), Len(tasks_text))
    IN
    IF \E i \in 1..n : ~BulkItemValid(parsed_list[i])
    THEN \* AttributeError on parsed.get, or pydantic ValidationError
         Done(HTTPException(ep, input, None, ev, 500), redis)
    ELSE Done(Return(ep, input, None, ev,
                     List([i \in 1..n |-> BulkItem(parsed_list[i], tasks_text[i])])),
              redis)

\* the module never binds CLAUDE_MODEL
CLAUDE_MODEL_bound == FALSE

\* POST /extract-commitments
extract_commitments(text, o) ==
    LET ep == "/extract-commitments"
        input == [text |-> text]
        ev == IF o.kind = "raise" THEN <<"ai_call", "ai_raise">> ELSE <<"ai_call">>
        json_match == search_brackets(o)
    IN
    IF ~CLAUDE_MODEL_bound
    THEN \* NameError while the arguments of messages.create are evaluated
         Done(HTTPException(ep, input, None, <<>>, 500), redis)
    ELSE IF o.kind = "raise"
    THEN Done(HTTPException(ep, input, None, ev, 500), redis)
    ELSE IF json_match = None
    THEN Done(Return(ep, input, None, ev,
                     Dict([commitments |-> List(<<>>), count |-> [py |-> "int", n |-> 0]])), redis)
    ELSE IF json_match[1].exc # "None"
    THEN Done(HTTPException(ep, input, None, ev, 500), redis)
    ELSE Done(Return(ep, input, None, ev,
                     Dict([commitments |-> json_match[1].val[1],
                           count |-> [py |-> "int", n |-> Len(json_match[1].val[1].items)]])),
              redis)


(***************************************************************************)
(* services/pattern-recognition/main.py                                    *)
(* A CompletionEvent of the model: at is the hour of completed_at, or None *)
(* when datetime.fromisoformat rejects the string; energy_level is ""      *)
(* for None; estimated_hours is 0 for None.                                *)
(* Lines 516-527 of the file, a second copy of the vendor call of          *)
(* detect_patterns with escaped quotes, are not Python (SyntaxError at     *)
(* line 516); the handlers are modelled as their statements read, with     *)
(* the one vendor call those lines spell.                                  *)
(***************************************************************************)
CompletionEvent(at, energy_level, estimated_hours) ==
    [at |-> at, energy_level |-> energy_level, estimated_hours |-> estimated_hours]

WorkingHoursData(events) == [events |-> events, timezone |-> "UTC"]

\* get_cache_key of this service: the digest of json.dumps(data, sort_keys=True)
\* (the sorted dump of the request stands for exactly the request)
get_cache_key_json(prefix, data) == <<prefix, md5(<<"json", data>>)>>

Parsed(events) == SelectSeq(events, LAMBDA e : e.at # None)
HoursOf(events) == {events[i].at[1] : i \in 1..Len(events)}
CountAt(events, hour) == Cardinality({i \in 1..Len(events) : events[i].at = Some(hour)})

\* analyze_working_hours(events)["peak_hours"]: the (at most three) hours
\* with the most completions
PeakHours(events) ==
    LET hours == HoursOf(Parsed(events)) IN
    {h \in hours : Cardinality({g \in hours :
                       CountAt(events, g) > CountAt(events, h)}) < 3}

\* detect_energy_patterns(events): the energy types that have a best hour
EnergyTypesSeen(events) ==
    {t \in {"deep_work", "focused", "administrative"} :
        \E i \in 1..Len(events) : events[i].at # None /\ events[i].energy_level = t}

Pattern(pattern_type, confidence) ==
    Dict([pattern_type |-> Str(pattern_type), confidence |-> Num(confidence)])

\* the patterns computed without the vendor, in the order they are appended
LocalPatterns(events) ==
    (IF PeakHours(events) # {} THEN <<Pattern("peak_working_hours", "0.85")>> ELSE <<>>)
    \o (IF "deep_work" \in EnergyTypesSeen(events)
        THEN <<Pattern("deep_work_pattern", "0.75")>> ELSE <<>>)
    \o (IF "focused" \in EnergyTypesSeen(events)
        THEN <<Pattern("focused_pattern", "0.75")>> ELSE <<>>)
    \o (IF "administrative" \in EnergyTypesSeen(events)
        THEN <<Pattern("administrative_pattern", "0.75")>> ELSE <<>>)

\* the patterns appended from the vendor's list: ai_patterns[:3], stopping
\* at the first entry that is no dict (AttributeError, caught)
RECURSIVE AIPatterns(_, _)
AIPatterns(items, i) ==
    IF i > Len(items) \/ i > 3 THEN <<>>
    ELSE IF items[i].py # "dict" THEN <<>>
    ELSE <<Dict([pattern_type |-> Get(items[i], "pattern_type", Str("ai_detected")),
                 confidence |-> Num("0.70")])>>
         \o AIPatterns(items, i + 1)

MinEventsForAI == 10
MaxEventsForAI == 50

\* POST /detect-patterns
detect_patterns(data, getOk, o, setOk) ==
    LET ep == "/detect-patterns"
        input == data
        cache_key == get_cache_key_json("patterns", data)
        cached == cache_get(redis, cache_key, getOk)
        held == Held(redis, cache_key, getOk)
        ev1 == <<"cache_get">>
        events == data.events
        recent == SubSeq(events, 1, Min(Len(events), MaxEventsForAI))
        \* the vendor is asked when there are enough events and every one
        \* of the first fifty parses
        asks == /\ Len(events) >= MinEventsForAI
                /\ \A i \in 1..Len(recent) : recent[i].at # None
        ev2 == ev1 \o (IF ~asks THEN <<>>
                       ELSE IF o.kind = "raise" THEN <<"ai_call", "ai_raise">>
                       ELSE <<"ai_call">>)
        json_match == search_brackets(o)
        fromAI == IF ~asks \/ o.kind = "raise" \/ json_match = None THEN <<>>
                  ELSE IF json_match[1].exc # "None" THEN <<>>
                  ELSE AIPatterns(json_match[1].val[1].items, 1)
        patterns == List(LocalPatterns(events) \o fromAI)
    IN
    IF cached # None /\ Truthy(cached[1])
    THEN Done(Return(ep, input, held, ev1, cached[1]), redis)
    ELSE Done(Return(ep, input, held, ev2 \o <<"cache_set">>, patterns),
              cache_set(redis, cache_key, patterns, 1800, setOk))


MinDeepWorkEvents == 5
TopFocusHours == 5

FocusDefaults ==
    Dict([optimal_hours |-> [py |-> "list", hours |-> {9, 10, 14}],
          focus_score_by_hour |-> [py |-> "dict", keys |-> "int", score |-> <<>>],
          deep_work_windows |-> [py |-> "list", windows |-> {<<9, 11>>}]])

\* the focus score of an hour: count * (total_hours / count), with
\* estimated_hours or 1.0 for every deep-work completion in that hour
FocusScore(deep, hour) ==
    LET idx == {i \in 1..Len(deep) : deep[i].at = Some(hour)}
        RECURSIVE Sum(_)
        Sum(S) == IF S = {} THEN 0
                  ELSE LET i == CHOOSE j \in S : TRUE
                       IN (IF deep[i].estimated_hours = 0 THEN 1
                           ELSE deep[i].estimated_hours) + Sum(S \ {i})
    IN Sum(idx)

\* the maximal runs of at least two consecutive optimal hours, as
\* (start, end + 1)
FocusWindows(optimal) ==
    {w \in (0..23) \X (1..24) :
        /\ w[2] - w[1] >= 2
        /\ \A h \in w[1]..(w[2] - 1) : h \in optimal
        /\ (w[1] - 1) \notin optimal
        /\ w[2] \notin optimal}

\* POST /analyze-focus-time
analyze_focus_time(data, getOk, setOk) ==
    LET ep == "/analyze-focus-time"
        input == data
        cache_key == get_cache_key_json("focus", data)
        cached == cache_get(redis, cache_key, getOk)
        held == Held(redis, cache_key, getOk)
        ev1 == <<"cache_get">>
        deep_work_events == SelectSeq(data.events,
                                LAMBDA e : e.energy_level \in {"deep_work", "focused"})
        deep == Parsed(deep_work_events)
        hours == HoursOf(deep)
        optimal == {h \in hours :
                      Cardinality({g \in hours : FocusScore(deep, g) > FocusScore(deep, h)})
                          < TopFocusHours}
        result == Dict([optimal_hours |-> [py |-> "list", hours |-> optimal],
                        focus_score_by_hour |->
                            [py |-> "dict", keys |-> "int",
                             score |-> [h \in hours |-> FocusScore(deep, h)]],
                        deep_work_windows |->
                            [py |-> "list", windows |-> FocusWindows(optimal)]])
    IN
    IF cached # None /\ Truthy(cached[1])
    THEN Done(Return(ep, input, held, ev1, cached[1]), redis)
    ELSE IF Len(deep_work_events) < MinDeepWorkEvents
    THEN Done(Return(ep, input, held, ev1, FocusDefaults), redis)
    ELSE Done(Return(ep, input, held, ev1 \o <<"cache_set">>, result),
              cache_set(redis, cache_key, result, 1800, setOk))

\* POST /analyze-patterns.  time_range is the value of the request's
\* "time_range"; dbOk says the four queries went through, completed is
\* len(completed_tasks), rowsOk that the rows format without an error.
analyze_patterns(time_range, dbOk, completed, rowsOk, o) ==
    LET ep == "/analyze-patterns"
        input == [time_range |-> time_range]
        ev == IF o.kind = "raise" THEN <<"ai_call", "ai_raise">> ELSE <<"ai_call">>
    IN
    IF ~db_pool
    THEN \* HTTPException(503) raised inside the try: it is an Exception,
         \* and the handler's except clause answers 500
         Done(HTTPException(ep, input, None, <<>>, 500), redis)
    ELSE IF time_range.py # "str"
    THEN \* AttributeError on time_range.rstrip
         Done(HTTPException(ep, input, None, <<>>, 500), redis)
    ELSE IF ~dbOk
    THEN Done(HTTPException(ep, input, None, <<"db_query">>, 500), redis)
    ELSE IF completed = 0
    THEN Done(Return(ep, input, None, <<"db_query">>,
                     Dict([error |-> Str("Pattern analysis requires task completion history")])),
              redis)
    ELSE IF ~rowsOk
    THEN Done(HTTPException(ep, input, None, <<"db_query">>, 500), redis)
    ELSE IF o.kind = "raise"
    THEN Done(HTTPException(ep, input, None, <<"db_query">> \o ev, 500), redis)
    ELSE Done(Return(ep, input, None, <<"db_query">> \o ev,
                     Dict([success |-> [py |-> "bool", b |-> TRUE],
                           insights |-> [py |-> "text", of |-> o]])),
              redis)


(***************************************************************************)
(* services/voice-processor/main.py                                        *)
(* An upload is its bytes (named) and their length.  The provider's answer *)
(* to a transcription: kind "openai_error" (openai.OpenAIError), "error"   *)
(* (any other exception) or "text" with the text it heard.                 *)
(***************************************************************************)
MiB == 1024 * 1024
MaxFileMB == 25

Upload(bytes, len) == [bytes |-> bytes, len |-> len]

\* str(x) inside the f-string of the cache key
PyStr(opt) == IF opt = None THEN "None" ELSE opt[1]

\* get_file_hash
get_file_hash(file_content) == md5(file_content)

\* f"transcription:{file_hash}:{language}:{temperature}"
TranscriptionKey(file, language, temperature) ==
    <<"transcription", get_file_hash(file.bytes), PyStr(language), temperature>>

\* TranscriptionResponse(**fields): the pydantic model keeps its own four
\* fields and drops the others
TranscriptionResponse(f) ==
    [py |-> "TranscriptionResponse",
     f |-> [text |-> f.text, language |-> f.language, duration |-> f.duration,
            cached |-> f.cached]]

\* file_size_mb > 25 with file_size_mb = len(file_content) / (1024 * 1024)
TooLarge(file) == file.len > MaxFileMB * MiB

\* the provider call of /transcribe and /transcribe-with-timestamps:
\* "status" is the HTTP status the except clauses give its failure, 0 when
\* the call returned
ProviderCall(t) ==
    IF ai_provider = "openai"
    THEN [called |-> TRUE,
          status |-> IF t.kind = "openai_error" THEN 502
                     ELSE IF t.kind = "error" THEN 500 ELSE 0]
    ELSE IF ai_provider = "ollama"
    THEN IF ~FASTER_WHISPER_AVAILABLE
         THEN \* HTTPException(503) raised inside the try, answered as 500
              [called |-> FALSE, status |-> 500]
         ELSE [called |-> TRUE, status |-> IF t.kind = "text" THEN 0 ELSE 500]
    ELSE \* HTTPException(400) raised inside the try, answered as 500
         [called |-> FALSE, status |-> 500]

ProviderEvents(t) ==
    IF ~ProviderCall(t).called THEN <<>>
    ELSE IF t.kind = "text" THEN <<"ai_call">> ELSE <<"ai_call", "ai_raise">>

\* POST /transcribe.  readOk: file.read() returned; tmpOk: the temporary
\* file was written; saveOk: save_recording returned a path.
transcribe_audio(file, language, temperature, readOk, getOk, tmpOk, t, saveOk, setOk) ==
    LET ep == "/transcribe"
        input == [file |-> file, language |-> language, temperature |-> temperature]
        cache_key == TranscriptionKey(file, language, temperature)
        cached_result == cache_get(redis, cache_key, getOk)
        held == Held(redis, cache_key, getOk)
        ev1 == <<"cache_get">>
        ev2 == ev1 \o ProviderEvents(t)
        base == [text |-> Str(t.text), language |-> Str(t.language),
                 duration |-> Num(t.duration), cached |-> [py |-> "bool", b |-> FALSE]]
        result == IF storage_manager /\ saveOk
                  THEN DictSet(base, "storage_path", Str("path")) ELSE base
    IN
    IF ~openai_api_key
    THEN Done(HTTPException(ep, input, None, <<>>, 503), redis)
    ELSE IF ~readOk
    THEN Done(HTTPException(ep, input, None, <<>>, 400), redis)
    ELSE IF TooLarge(file)
    THEN \* HTTPException(413) raised inside the try: caught, answered as 400
         Done(HTTPException(ep, input, None, <<>>, 400), redis)
    ELSE IF cached_result # None /\ Truthy(cached_result[1])
    THEN IF "cached" \in DOMAIN cached_result[1].f
         THEN \* TranscriptionResponse(**cached_result, cached=True): two
              \* values for the keyword 'cached'
              Done(Propagates(ep, input, held, ev1, "TypeError"), redis)
         ELSE Done(Return(ep, input, held, ev1,
                      TranscriptionResponse(
                          DictSet(cached_result[1].f, "cached", [py |-> "bool", b |-> TRUE]))),
                   redis)
    ELSE IF ~tmpOk
    THEN Done(HTTPException(ep, input, held, ev1, 500), redis)
    ELSE IF ProviderCall(t).status # 0
    THEN Done(HTTPException(ep, input, held, ev2, ProviderCall(t).status), redis)
    ELSE Done(Return(ep, input, held, ev2 \o <<"cache_set">>, TranscriptionResponse(result)),
              cache_set(redis, cache_key, Dict(result), 3600, setOk))

\* POST /transcribe-with-timestamps
transcribe_with_timestamps(file, language, readOk, tmpOk, t) ==
    LET ep == "/transcribe-with-timestamps"
        input == [file |-> file, language |-> language]
    IN
    IF ~openai_api_key
    THEN Done(HTTPException(ep, input, None, <<>>, 503), redis)
    ELSE IF ~readOk
    THEN Done(HTTPException(ep, input, None, <<>>, 500), redis)
    ELSE IF TooLarge(file)
    THEN \* HTTPException(413) raised inside the try: caught, answered as 500
         Done(HTTPException(ep, input, None, <<>>, 500), redis)
    ELSE IF ~tmpOk
    THEN Done(HTTPException(ep, input, None, <<>>, 500), redis)
    ELSE IF ProviderCall(t).status # 0
    THEN Done(HTTPException(ep, input, None, ProviderEvents(t), ProviderCall(t).status), redis)
    ELSE Done(Return(ep, input, None, ProviderEvents(t),
                     Dict([text |-> Str(t.text), language |-> Str(t.language),
                           duration |-> Num(t.duration), words |-> List(<<>>)])),
              redis)

\* POST /translate: always the OpenAI translation API
translate_audio(file, readOk, tmpOk, t) ==
    LET ep == "/translate"
        input == [file |-> file]
        ev == IF t.kind = "text" THEN <<"ai_call">> ELSE <<"ai_call", "ai_raise">>
    IN
    IF ~openai_api_key
    THEN Done(HTTPException(ep, input, None, <<>>, 503), redis)
    ELSE IF ~readOk \/ ~tmpOk
    THEN Done(HTTPException(ep, input, None, <<>>, 500), redis)
    ELSE IF t.kind = "openai_error"
    THEN Done(HTTPException(ep, input, None, ev, 502), redis)
    ELSE IF t.kind = "error"
    THEN Done(HTTPException(ep, input, None, ev, 500), redis)
    ELSE Done(Return(ep, input, None, ev,
                     Dict([text |-> Str(t.text), target_language |-> Str("en")])),
              redis)

\* GET /health of the voice processor; pingOk: redis_client.ping() returned
health_check(pingOk) ==
    LET degraded == \/ redis_client /\ ~pingOk
                    \/ ai_provider = "ollama" /\ ~FASTER_WHISPER_AVAILABLE
                    \/ ai_provider = "openai" /\ ~openai_api_key
    IN Done(Return("/health", [none |-> TRUE], None, <<>>,
                   Dict([status |-> Str(IF degraded THEN "degraded" ELSE "healthy"),
                         ai_provider |-> Str(ai_provider)])),
            redis)


(***************************************************************************)
(* services/shared/config_manager.py                                       *)
(* Configuration values are Python values: None is Null, a str is Str, an  *)
(* int is PyInt, a bool is Bool.  The config table holds strings.          *)
(***************************************************************************)
PyInt(n) == [py |-> "int", n |-> n]
Bool(b) == [py |-> "bool", b |-> b]

UpperCase == "ABCDEFGHIJKLMNOPQRSTUVWXYZ"
LowerCase == "abcdefghijklmnopqrstuvwxyz"
\* the character of `to` at the place c has in `from`, c itself otherwise
MapChar(c, from, to) ==
    IF \E i \in 1..Len(from) : Char(from, i) = c
    THEN Char(to, CHOOSE i \in 1..Len(from) : Char(from, i) = c)
    ELSE c
RECURSIVE MapString(_, _, _)
MapString(text, from, to) ==
    IF text = "" THEN ""
    ELSE MapChar(Char(text, 1), from, to) \o MapString(SubSeq(text, 2, Len(text)), from, to)
\* str.lower(), str.upper(), key.replace('.', '_')
Lower(text) == MapString(text, UpperCase, LowerCase)
Upper(text) == MapString(text, LowerCase, UpperCase)
Underscored(text) == MapString(text, ".", "_")

\* env_key = key.replace('.', '_').upper()
EnvKey(key) == Upper(Underscored(key))

\* str(x) of a value that is a str
str(v) == v.s

\* int(text) for a text of digits; anything else is a ValueError
RECURSIVE DigitsValue(_)
DigitsValue(text) ==
    IF text = "" THEN 0
    ELSE 10 * DigitsValue(SubSeq(text, 1, Len(text) - 1)) + DigitValue(Char(text, Len(text)))
IsDigits(text) == text # "" /\ \A i \in 1..Len(text) : Char(text, i) \in Digit

\* _cast_value(value, reference)
_cast_value(value, reference) ==
    IF reference.py = "null" THEN Ok(Str(value))
    ELSE IF reference.py = "bool" THEN Ok(Bool(Lower(value) \in {"true", "1", "yes"}))
    ELSE IF reference.py = "int"
    THEN IF IsDigits(value) THEN Ok(PyInt(DigitsValue(value))) ELSE Exc("ValueError")
    ELSE IF reference.py = "float"
    THEN IF IsDigits(value) THEN Ok(Num(value)) ELSE Exc("ValueError")
    ELSE Ok(Str(value))

_cache_ttl == 60

\* the fields of the manager that get reads and writes
Manager(cache, cache_time, read) == [cache |-> cache, cache_time |-> cache_time, read |-> read]

\* get from "# Check cache" on: the cached value while the cache is young,
\* else the row of the table (dbOk: the query went through), else the
\* default.  queried tells whether the table was asked.
lookup(m, key, default, dbOk) ==
    IF /\ key \in DOMAIN m.cache
       /\ m.cache_time # None
       /\ now - m.cache_time[1] < _cache_ttl
    THEN [value |-> m.cache[key], source |-> "cache", queried |-> FALSE, m |-> m]
    ELSE IF _conn /\ dbOk /\ key \in DOMAIN table
    THEN [value |-> Str(table[key]), source |-> "db", queried |-> TRUE,
          m |-> Manager(DictSet(m.cache, key, Str(table[key])), Some(now),
                        DictSet(m.read, key, now))]
    ELSE [value |-> default, source |-> "default", queried |-> _conn, m |-> m]

AllowKey == "system.allow_env_override"

\* the keys of the model and the values their rows take
ConfigKeys == {AllowKey, "a.b"}
TableValues == [x \in ConfigKeys |-> IF x = AllowKey THEN {"TRUE", "false"}
                                      ELSE {"v1", "v2"}]
\* EnvKey and Lower tabulated over them
EnvKeys == [key \in ConfigKeys |-> EnvKey(key)]
Lowered == [text \in TableValues[AllowKey] \cup {"true"} |-> Lower(text)]

\* str(allow_override).lower() == 'true'
\* the comparison without lower()
Allows_exact(allow_override) == str(allow_override) = "true"

\* str(allow_override).lower() == 'true'
Allows(allow_override) == Lowered[str(allow_override)] = "true"

\* what a call of get leaves for the properties to read (obs) and in the
\* manager (m): allow is the value found for system.allow_env_override,
\* source where the answer came from, age the age of the key's cached
\* entry when it was looked at, queried the keys the table was asked for
Got(key, default, force_db, allow, result, source, age, queried, m) ==
    [obs |-> [op |-> "get", key |-> key, default |-> default, force_db |-> force_db,
              allow |-> allow, result |-> result, source |-> source, age |-> age,
              queried |-> queried],
     m |-> m]

\* the age of the cached entry of key: the time since it was read
Age(m, key) == IF key \in DOMAIN m.read THEN now - m.read[key] ELSE -1

\* ConfigManager.get(key, default, force_db); dbOk1 is the query for
\* system.allow_env_override, dbOk2 the query for the key
get(key, default, force_db, dbOk1, dbOk2) ==
    LET m0 == Manager(_cache, _cache_time, read_at)
        inner == lookup(m0, AllowKey, Str("true"), dbOk1)
    IN
    IF force_db
    THEN LET r == lookup(m0, key, default, dbOk2)
         IN Got(key, default, force_db, None, Ok(r.value), r.source, Age(m0, key),
                IF r.queried THEN <<key>> ELSE <<>>, r.m)
    ELSE IF Allows(inner.value) /\ EnvKeys[key] \in DOMAIN environ
    THEN Got(key, default, force_db, Some(inner.value),
             _cast_value(environ[EnvKeys[key]], default), "env", Age(inner.m, key),
             IF inner.queried THEN <<AllowKey>> ELSE <<>>, inner.m)
    ELSE LET r == lookup(inner.m, key, default, dbOk2)
         IN Got(key, default, force_db, Some(inner.value), Ok(r.value), r.source,
                Age(inner.m, key),
                (IF inner.queried THEN <<AllowKey>> ELSE <<>>)
                    \o (IF r.queried THEN <<key>> ELSE <<>>),
                r.m)

\* ConfigManager.set(key, value): RuntimeError without a connection; the
\* UPDATE touches the row of the key when there is one (dbOk: it went
\* through), then the key leaves the cache
set(key, value, dbOk) ==
    IF ~_conn THEN [raised |-> "RuntimeError", table |-> table, cache |-> _cache]
    ELSE IF ~dbOk THEN [raised |-> "DatabaseError", table |-> table, cache |-> _cache]
    ELSE [raised |-> "None",
          table |-> IF key \in DOMAIN table THEN DictSet(table, key, value) ELSE table,
          cache |-> [k \in DOMAIN _cache \ {key} |-> _cache[k]]]

(***************************************************************************)
(* services/shared/ai_providers.py : get_best_available_provider           *)
(* What the process can reach: the vendor packages that import, the keys   *)
(* in the environment, the api_key keyword, the Ollama server.             *)
(***************************************************************************)
\* the list with OpenAI tried first
providers_openai_first == <<"openai", "anthropic", "ollama", "bedrock">>

\* providers_to_try in get_best_available_provider
providers_to_try == <<"anthropic", "openai", "ollama", "bedrock">>

\* self.client is not None after __init__ of the provider's class
has_client(provider, env) ==
    CASE provider = "anthropic" ->
             env.anthropic_pkg /\ (env.api_key \/ env.ANTHROPIC_API_KEY)
      [] provider = "openai" ->
             env.openai_pkg /\ (env.api_key \/ env.OPENAI_API_KEY)
      [] provider = "ollama" -> env.httpx_pkg
      [] provider = "bedrock" -> env.boto3_client

\* get_ai_client(provider=..., model=..., **kwargs) raises TypeError before
\* any provider is built when kwargs itself names model or provider
get_ai_client_raises(env) == env.model_kwarg

\* is_available(): the client is there; Ollama also asks /api/tags
is_available(provider, env) ==
    IF provider = "ollama" THEN has_client(provider, env) /\ env.ollama_up
    ELSE has_client(provider, env)

(***************************************************************************)
(* The requests and the environment's answers that the model draws from.   *)
(***************************************************************************)
Services == {"ai-intelligence", "nl-parser", "pattern-recognition", "voice-processor"}

\* ai-intelligence
Descriptions == {"a", "ab"}
Contexts == {None, Some(""), Some("b")}

Effort(hours) ==
    Dict([estimated_hours |-> Num(hours), confidence |-> Num("0.8"),
          reasoning |-> Str("r"), breakdown |-> List(<<>>)])
Energy(level) == Dict([energy_level |-> Str(level), confidence |-> Num("0.8")])
Clusters == Dict([clusters |-> List(<<Dict([name |-> Str("n")])>>)])

\* what the vendor may spell for ai-intelligence: two well-formed efforts,
\* two energy levels (one outside the five), a clustering, a dict that
\* lacks the keys, and a list
Unkeyed == Dict([note |-> Str("n")])
EffortAnswers ==
    {Raise, Text(FALSE, None), Text(TRUE, Some(Effort("1"))), Text(FALSE, Some(Effort("1"))),
     Text(FALSE, Some(Effort("2"))), Text(FALSE, Some(Unkeyed)), Text(FALSE, Some(List(<<>>)))}
EnergyAnswers ==
    {Raise, Text(FALSE, None), Text(FALSE, Some(Energy("deep_work"))),
     Text(FALSE, Some(Energy("urgent"))), Text(FALSE, Some(Unkeyed))}
ClusterAnswers ==
    {Raise, Text(FALSE, None), Text(FALSE, Some(Clusters)), Text(FALSE, Some(Unkeyed))}
EnergyTexts == {"a"}

Task(id, description) == [id |-> id, description |-> description]
TaskLists == {<<>>, <<Task(1, "a")>>}

\* nl-parser
TaskDict == Dict([title |-> Str("t"), tags |-> List(<<Str("x")>>)])
\* answers to /parse-task: it raises, prose without or with braces, a
\* task, a task whose title is a number
ParseAnswers ==
    {Raise, Prose("none"), Prose("braces"), Text(FALSE, Some(TaskDict)),
     Text(FALSE, Some(Dict([title |-> Num("1")])))}
\* answers to /parse-bulk and /extract-commitments: it raises, prose
\* without or with brackets, a list of one task, a list of a string
ListAnswers ==
    {Raise, Prose("none"), Prose("brackets"), Text(FALSE, Some(List(<<TaskDict>>))),
     Text(FALSE, Some(List(<<Str("s")>>)))}

MaxLines == 2
BulkTexts == UNION {[1..n -> BulkLines] : n \in 0..MaxLines}
\* the environment of the calls of parse_task in the fallback loop
LineAnswers == {Raise, Text(FALSE, Some(TaskDict))}
\* one for each task line when the bulk answer sends parse_bulk to the
\* loop, none otherwise
BulkEnvs(lines, o) ==
    IF o.kind = "text" /\ search_brackets(o) = None
    THEN [1..Len(SelectSeq(lines, LAMBDA line : Len(line) > 3))
              -> {Env(TRUE, a, TRUE) : a \in LineAnswers}]
    ELSE {<<>>}

\* pattern-recognition: n completions of one kind
MaxEvents == 10
DeepAtNine == CompletionEvent(Some(9), "deep_work", 2)
Undated == CompletionEvent(None, "deep_work", 0)
Repeat(n, e) == [i \in 1..n |-> e]
Datas ==
    {WorkingHoursData(Repeat(0, DeepAtNine)),
     WorkingHoursData(Repeat(MinDeepWorkEvents, DeepAtNine)),
     WorkingHoursData(Repeat(MaxEvents, DeepAtNine)),
     WorkingHoursData(Repeat(MaxEvents, Undated))}
PatternAnswers ==
    {Raise, Prose("none"), Prose("brackets"),
     Text(FALSE, Some(List(<<Dict([pattern_type |-> Str("p"), confidence |-> Num("0.7")])>>)))}
TimeRanges == {Str("30d"), Num("30")}
CompletedCounts == {0, 3}

\* voice-processor
Files == {Upload("a", 1), Upload("edge", MaxFileMB * MiB), Upload("big", MaxFileMB * MiB + 1)}
Languages == {None, Some("en")}
Temperatures == {"0.0"}
Heard(kind) == [kind |-> kind, text |-> "hello", language |-> "en", duration |-> "1.5"]
Transcriptions == {Heard("text"), Heard("openai_error"), Heard("error")}
Providers == {"openai", "ollama", "anthropic"}
\* what fails around one request to the voice processor: nothing, or one
\* of file.read(), the Redis lookup, the temporary file, save_recording,
\* the Redis write
Faults == {"none", "read", "cache_get", "tmp", "save", "cache_set"}


(***************************************************************************)
(* The service processes.  Every handler is one action: it reads the       *)
(* request and the environment's answers, and leaves its observation in    *)
(* last and the store it wrote in redis.                                   *)
(***************************************************************************)
\* no vendor is asked by the request, or no property reads its answer
NoAnswer == [kind |-> "none"]

\* the request ends: last keeps what the handler did and, as answer, what
\* the vendor had to say to it
Finish(r, o) ==
    /\ last' = (r.obs @@ [answer |-> o])
    /\ redis' = r.store
    /\ UNCHANGED <<config, cfgVars, pvVars, stVars, rqVars>>

EstimateEffort ==
    /\ service = "ai-intelligence"
    /\ \E description \in Descriptions, context \in Contexts,
          getOk \in BOOLEAN, o \in EffortAnswers, setOk \in BOOLEAN :
          Finish(estimate_effort(description, context, getOk, o, setOk), o)

ClassifyEnergy ==
    /\ service = "ai-intelligence"
    /\ \E description \in EnergyTexts,
          getOk \in BOOLEAN, o \in EnergyAnswers, setOk \in BOOLEAN :
          Finish(classify_energy(description, getOk, o, setOk), o)

ClusterTasks ==
    /\ service = "ai-intelligence"
    /\ \E tasks \in TaskLists, o \in ClusterAnswers :
          Finish(cluster_tasks(tasks, o), o)

ParseTask ==
    /\ service = "nl-parser"
    /\ \E text \in Texts, getOk \in BOOLEAN, o \in ParseAnswers, setOk \in BOOLEAN :
          Finish(parse_task(redis, text, getOk, o, setOk),
                 o @@ [getOk |-> getOk, setOk |-> setOk])

ParseBulk ==
    /\ service = "nl-parser"
    /\ \E lines \in BulkTexts, o \in ListAnswers :
       \E envs \in BulkEnvs(lines, o) :
          Finish(parse_bulk(lines, o, envs), o)

ExtractCommitments ==
    /\ service = "nl-parser"
    /\ \E text \in Texts, o \in ListAnswers :
          Finish(extract_commitments(text, o), o)

DetectPatterns ==
    /\ service = "pattern-recognition"
    /\ \E data \in Datas, getOk \in BOOLEAN, o \in PatternAnswers, setOk \in BOOLEAN :
          Finish(detect_patterns(data, getOk, o, setOk), NoAnswer)

AnalyzeFocusTime ==
    /\ service = "pattern-recognition"
    /\ \E data \in Datas, getOk \in BOOLEAN, setOk \in BOOLEAN :
          Finish(analyze_focus_time(data, getOk, setOk), NoAnswer)

AnalyzePatterns ==
    /\ service = "pattern-recognition"
    /\ \E time_range \in TimeRanges, dbOk \in BOOLEAN, completed \in CompletedCounts,
          rowsOk \in BOOLEAN, o \in PatternAnswers :
          Finish(analyze_patterns(time_range, dbOk, completed, rowsOk, o), NoAnswer)

Transcribe ==
    /\ service = "voice-processor"
    /\ \E file \in Files, language \in Languages, temperature \in Temperatures,
          fault \in Faults, t \in Transcriptions :
          Finish(transcribe_audio(file, language, temperature, fault # "read",
                                  fault # "cache_get", fault # "tmp", t,
                                  fault # "save", fault # "cache_set"), NoAnswer)

TranscribeWithTimestamps ==
    /\ service = "voice-processor"
    /\ \E file \in Files, language \in Languages, fault \in {"none", "read", "tmp"},
          t \in Transcriptions :
          Finish(transcribe_with_timestamps(file, language, fault # "read",
                                            fault # "tmp", t), NoAnswer)

Translate ==
    /\ service = "voice-processor"
    /\ \E file \in Files, fault \in {"none", "read", "tmp"}, t \in Transcriptions :
          Finish(translate_audio(file, fault # "read", fault # "tmp", t), NoAnswer)

Health ==
    /\ service = "voice-processor"
    /\ \E pingOk \in BOOLEAN : Finish(health_check(pingOk), NoAnswer)

\* Redis drops an entry whose time to live has run out
Expire ==
    /\ \E key \in DOMAIN redis : redis' = RedisDel(redis, key)
    /\ last' = Idle
    /\ UNCHANGED <<config, cfgVars, pvVars, stVars, rqVars>>


(***************************************************************************)
(* The state a process is in once its module has been imported.  The       *)
(* names a service does not have keep a fixed value.                       *)
(***************************************************************************)
EmptyStore == [key \in {} |-> None]
\* an empty dict of the ConfigManager, an empty table, an empty environment
NoRows == [key \in {} |-> ""]
Quiet ==
    [op |-> "none", key |-> "", default |-> Null, force_db |-> FALSE, allow |-> None,
     result |-> Ok(Null), source |-> "none", age |-> -1, queried |-> <<>>]
NoEnvironment ==
    [anthropic_pkg |-> FALSE, openai_pkg |-> FALSE, httpx_pkg |-> FALSE,
     boto3_client |-> FALSE, api_key |-> FALSE, ANTHROPIC_API_KEY |-> FALSE,
     OPENAI_API_KEY |-> FALSE, ollama_up |-> FALSE, model_kwarg |-> FALSE]

\* the provider objects get_ai_client hands out: ready is FALSE when the
\* provider was built without its vendor client (no key, no package)
SharedClients == [kind : {"anthropic", "openai"}, ready : BOOLEAN]
\* anthropic.Anthropic(...) of the legacy branch
LegacyClient == [kind |-> "anthropic-sdk", ready |-> TRUE]

NotVoice ==
    /\ ai_provider = "none" /\ openai_api_key = FALSE
    /\ FASTER_WHISPER_AVAILABLE = FALSE /\ storage_manager = FALSE

InitIntelligence ==
    /\ service = "ai-intelligence"
    /\ \/ \* the shared provider and redis.from_url went through
          USE_SHARED_LIBS = TRUE /\ ai_client \in SharedClients /\ redis_client = TRUE
       \/ \* legacy branch
          USE_SHARED_LIBS = FALSE /\ ai_client = LegacyClient /\ redis_client = TRUE
       \/ \* the initialisation raised
          USE_SHARED_LIBS \in BOOLEAN /\ ai_client = NoClient /\ redis_client = FALSE
    /\ db_pool = FALSE
    /\ NotVoice

InitParser ==
    /\ service = "nl-parser"
    /\ redis_client \in BOOLEAN
    /\ USE_SHARED_LIBS = FALSE /\ ai_client = NoClient /\ db_pool = FALSE
    /\ NotVoice

InitPattern ==
    /\ service = "pattern-recognition"
    /\ redis_client \in BOOLEAN
    /\ db_pool \in BOOLEAN
    /\ USE_SHARED_LIBS = FALSE /\ ai_client = NoClient
    /\ NotVoice

InitVoice ==
    /\ service = "voice-processor"
    /\ ai_provider \in Providers
    \* openai_api_key is read only when the provider is "openai"
    /\ openai_api_key \in (IF ai_provider = "openai" THEN BOOLEAN ELSE {FALSE})
    /\ FASTER_WHISPER_AVAILABLE \in BOOLEAN
    /\ storage_manager \in BOOLEAN
    /\ redis_client \in BOOLEAN
    /\ USE_SHARED_LIBS = FALSE /\ ai_client = NoClient /\ db_pool = FALSE

\* no ConfigManager call and no provider selection is followed
NoManager ==
    /\ _conn = FALSE /\ _cache = NoRows /\ _cache_time = None /\ read_at = NoRows
    /\ table = NoRows /\ environ = NoRows /\ now = 0 /\ got = Quiet
NoSelection == installed = NoEnvironment /\ trying = 0 /\ chosen = "none"
\* no StorageManager is followed
Unused == [op |-> "none"]
NoStorage ==
    /\ storage_type = "none" /\ files = NoRows /\ objects = NoRows
    /\ saved = {} /\ did = Unused

\* no pair of requests is followed
NoRequests == pending = <<>> /\ served = <<>>

\* no service process is followed
NoService ==
    /\ service = "none"
    /\ redis_client = FALSE /\ USE_SHARED_LIBS = FALSE /\ ai_client = NoClient
    /\ db_pool = FALSE
    /\ NotVoice
    /\ redis = EmptyStore
    /\ last = Idle

Init ==
    /\ \/ InitIntelligence
       \/ InitParser
       \/ InitPattern
       \/ InitVoice
    /\ redis = EmptyStore
    /\ last = Idle
    /\ NoManager
    /\ NoSelection
    /\ NoStorage
    /\ NoRequests

Next ==
    \/ EstimateEffort
    \/ ClassifyEnergy
    \/ ClusterTasks
    \/ ParseTask
    \/ ParseBulk
    \/ ExtractCommitments
    \/ DetectPatterns
    \/ AnalyzeFocusTime
    \/ AnalyzePatterns
    \/ Transcribe
    \/ TranscribeWithTimestamps
    \/ Translate
    \/ Health
    \/ Expire

Spec == Init /\ [][Next]_vars

(***************************************************************************)
(* One ConfigManager: its calls, the table's owner writing rows, time.     *)
(***************************************************************************)
Defaults == {Null, PyInt(5)}
Environs == {NoRows} \cup {[k \in {"A_B"} |-> v] : v \in {"7", "x"}}
Tick == 30
MaxClock == 60

InitConfig ==
    /\ _conn \in BOOLEAN
    /\ _cache = NoRows /\ _cache_time = None /\ read_at = NoRows
    /\ table = NoRows
    /\ environ \in Environs
    /\ now = 0
    /\ got = Quiet
    /\ NoService
    /\ NoSelection
    /\ NoStorage
    /\ NoRequests

ConfigGet ==
    /\ \E key \in ConfigKeys, default \in Defaults, force_db \in BOOLEAN,
          dbOk1 \in BOOLEAN, dbOk2 \in BOOLEAN :
          LET g == get(key, default, force_db, dbOk1, dbOk2) IN
          /\ got' = g.obs
          /\ _cache' = g.m.cache
          /\ _cache_time' = g.m.cache_time
          /\ read_at' = g.m.read
    /\ UNCHANGED <<_conn, table, environ, now, svcVars, pvVars, stVars, rqVars>>

ConfigSet ==
    /\ \E key \in ConfigKeys, dbOk \in BOOLEAN :
       \E value \in TableValues[key] :
          LET r == set(key, value, dbOk) IN
          /\ table' = r.table
          /\ _cache' = r.cache
          /\ read_at' = [k \in DOMAIN r.cache |-> read_at[k]]
          /\ got' = [Quiet EXCEPT !.op = "set"]
    /\ UNCHANGED <<_conn, _cache_time, environ, now, svcVars, pvVars, stVars, rqVars>>

\* clear_cache()
ClearCache ==
    /\ _cache' = NoRows
    /\ _cache_time' = None
    /\ read_at' = NoRows
    /\ got' = Quiet
    /\ UNCHANGED <<_conn, table, environ, now, svcVars, pvVars, stVars, rqVars>>

\* the owner of the config table writes a row
WriteRow ==
    /\ \E key \in ConfigKeys : \E value \in TableValues[key] :
          table' = DictSet(table, key, value)
    /\ got' = Quiet
    /\ UNCHANGED <<_conn, _cache, _cache_time, read_at, environ, now, svcVars, pvVars, stVars, rqVars>>

\* time passes
Advance ==
    /\ now + Tick <= MaxClock
    /\ now' = now + Tick
    /\ got' = Quiet
    /\ UNCHANGED <<_conn, _cache, _cache_time, read_at, table, environ, svcVars, pvVars, stVars, rqVars>>

NextConfig ==
    \/ ConfigGet
    \/ ConfigSet
    \/ ClearCache
    \/ WriteRow
    \/ Advance

SpecConfig == InitConfig /\ [][NextConfig]_vars

(***************************************************************************)
(* One call of get_best_available_provider, one provider per step.         *)
(***************************************************************************)
Environments ==
    [anthropic_pkg : BOOLEAN, openai_pkg : BOOLEAN, httpx_pkg : BOOLEAN,
     boto3_client : BOOLEAN, api_key : BOOLEAN, ANTHROPIC_API_KEY : BOOLEAN,
     OPENAI_API_KEY : BOOLEAN, ollama_up : BOOLEAN, model_kwarg : BOOLEAN]

InitProvider ==
    /\ installed \in Environments
    /\ trying = 1
    /\ chosen = "pending"
    /\ NoService
    /\ NoManager
    /\ NoStorage
    /\ NoRequests

\* one turn of the loop: the provider is built and asked; the call returns
\* it when it is available and goes on with the next one when it is not
TryProvider ==
    /\ chosen = "pending"
    /\ trying \in 1..Len(providers_to_try)
    /\ IF /\ ~get_ai_client_raises(installed)
          /\ is_available(providers_to_try[trying], installed)
       THEN chosen' = providers_to_try[trying] /\ trying' = trying
       ELSE chosen' = chosen /\ trying' = trying + 1
    /\ UNCHANGED <<installed, svcVars, cfgVars, stVars, rqVars>>

\* after the loop: raise RuntimeError("No AI providers available...")
GiveUp ==
    /\ chosen = "pending"
    /\ trying > Len(providers_to_try)
    /\ chosen' = "RuntimeError"
    /\ UNCHANGED <<installed, trying, svcVars, cfgVars, stVars, rqVars>>

NextProvider ==
    \/ TryProvider
    \/ GiveUp

SpecProvider == InitProvider /\ [][NextProvider]_vars


(***************************************************************************)
(* services/voice-processor/storage_manager.py : one StorageManager.       *)
(* File contents and paths are strings.  Every call of the filesystem or   *)
(* of S3 may fail (a full disk, a denied request): the flags say which     *)
(* went through.                                                           *)
(***************************************************************************)
\* self.storage_path (shortened) and self.s3_bucket
storage_path == "/data"
s3_bucket == "b"
\* timestamp.strftime('%Y/%m/%d')
date_prefix == "2026/11/04"

\* text.startswith(prefix)
startswith(text, prefix) ==
    Len(text) >= Len(prefix) /\ SubSeq(text, 1, Len(prefix)) = prefix

\* text.split('/', 1)
split_once(text) ==
    LET at == {i \in 1..Len(text) : SubSeq(text, i, i) = "/"} IN
    IF at = {} THEN <<text>>
    ELSE LET i == CHOOSE x \in at : \A y \in at : x <= y IN
         <<SubSeq(text, 1, i - 1), SubSeq(text, i + 1, Len(text))>>

\* json.dump(metadata, f, indent=2): the text of the sidecar
json_dump(metadata) == "{" \o metadata \o "}"

\* a dict without one key
Without(f, k) == [x \in DOMAIN f \ {k} |-> f[x]]

\* the directories that exist: _init_local makes storage_path
Directories == {storage_path}

\* "Parse S3 URL" of get_recording and delete_recording
S3Location(storage_key) ==
    IF startswith(storage_key, "s3://")
    THEN LET parts == split_once(SubSeq(storage_key, 6, Len(storage_key))) IN
         [bucket |-> parts[1], key |-> IF Len(parts) > 1 THEN parts[2] ELSE ""]
    ELSE [bucket |-> s3_bucket, key |-> storage_key]

\* what a call leaves: its result, the filesystem and the bucket
Stored(result, fs, bucket) == [result |-> result, files |-> fs, objects |-> bucket]

\* StorageManager.save_recording(file_data, filename, metadata); fault is
\* the call that fails: the write of the recording, of the sidecar, or none
save_recording(file_data, filename, metadata, fault) ==
    LET storage_key == date_prefix \o "/" \o filename IN
    IF storage_type = "s3"
    THEN IF fault # "none"
         THEN Stored(Exc("ClientError"), files, objects)
         ELSE Stored(Ok("s3://" \o s3_bucket \o "/" \o storage_key), files,
                     DictSet(objects, storage_key, file_data))
    ELSE
    LET full_path == storage_path \o "/" \o storage_key IN
    IF filename = ""
    THEN \* full_path ends with the directory just made
         Stored(Exc("IsADirectoryError"), files, objects)
    ELSE IF fault = "write"
    THEN Stored(Exc("OSError"), files, objects)
    ELSE
    LET written == DictSet(files, full_path, file_data) IN
    IF metadata = None
    THEN Stored(Ok(full_path), written, objects)
    ELSE IF fault = "sidecar"
    THEN Stored(Exc("OSError"), written, objects)
    ELSE Stored(Ok(full_path),
                DictSet(written, full_path \o ".json", json_dump(metadata[1])), objects)

\* StorageManager.get_recording(storage_key) on the filesystem fs and the
\* bucket: the bytes, None when there is nothing, or the exception
get_recording(fs, bucket, storage_key, ioOk) ==
    IF storage_type = "s3"
    THEN LET at == S3Location(storage_key) IN
         IF at.key = "" THEN Exc("ParamValidationError")
         ELSE IF ~ioOk \/ at.bucket # s3_bucket THEN Exc("ClientError")
         ELSE IF at.key \in DOMAIN bucket THEN Ok(Some(bucket[at.key]))
         ELSE Ok(None)
    ELSE IF storage_key \in Directories THEN Exc("IsADirectoryError")
    ELSE IF storage_key \notin DOMAIN fs THEN Ok(None)
    ELSE IF ~ioOk THEN Exc("OSError")
    ELSE Ok(Some(fs[storage_key]))

\* StorageManager.delete_recording(storage_key); ioOk is the removal of the
\* recording, ioOk2 the removal of its sidecar.  S3 answers delete_object
\* for a key that holds nothing like for one that does.
delete_recording(storage_key, ioOk, ioOk2) ==
    IF storage_type = "s3"
    THEN LET at == S3Location(storage_key) IN
         IF at.key = "" \/ ~ioOk \/ at.bucket # s3_bucket
         THEN Stored(FALSE, files, objects)
         ELSE Stored(TRUE, files,
                     IF at.key \in DOMAIN objects THEN Without(objects, at.key)
                     ELSE objects)
    ELSE IF storage_key \in Directories THEN Stored(FALSE, files, objects)
    ELSE IF storage_key \notin DOMAIN files THEN Stored(FALSE, files, objects)
    ELSE IF ~ioOk THEN Stored(FALSE, files, objects)
    ELSE
    LET unlinked == Without(files, storage_key)
        metadata_path == storage_key \o ".json"
    IN
    IF metadata_path \notin DOMAIN unlinked THEN Stored(TRUE, unlinked, objects)
    ELSE IF ~ioOk2 THEN Stored(FALSE, unlinked, objects)
    ELSE Stored(TRUE, Without(unlinked, metadata_path), objects)

\* whether a recording is stored at storage_key
HoldsRecording(fs, bucket, storage_key) ==
    IF storage_type = "s3"
    THEN S3Location(storage_key).bucket = s3_bucket
             /\ S3Location(storage_key).key \in DOMAIN bucket
    ELSE storage_key \in DOMAIN fs

\* the recordings, names and metadata of the model, and the paths asked for
Recordings == {"d1", "d2"}
Filenames == {"a.mp3", "a.mp3.json", ""}
Metadatas == {None, Some("m")}
SaveFaults == {"none", "write", "sidecar"}
Probes ==
    saved \cup
    (IF storage_type = "s3"
     THEN {"s3://b/n.mp3", "n.mp3", "s3://c/n.mp3", "s3://b", "2026/11/04/a.mp3"}
     ELSE {storage_path, "/data/n.mp3", "/data/2026/11/04/a.mp3.json"})

InitStorage ==
    /\ storage_type \in {"local", "s3"}
    /\ files = NoRows /\ objects = NoRows
    /\ saved = {}
    /\ did = Unused
    /\ NoService
    /\ NoManager
    /\ NoSelection
    /\ NoRequests

SaveRecording ==
    /\ \E file_data \in Recordings, filename \in Filenames, metadata \in Metadatas,
          fault \in SaveFaults :
          LET r == save_recording(file_data, filename, metadata, fault) IN
          /\ files' = r.files
          /\ objects' = r.objects
          /\ saved' = IF r.result.exc = "None" THEN saved \cup {r.result.val[1]} ELSE saved
          /\ did' = [op |-> "save", file_data |-> file_data, filename |-> filename,
                     fault |-> fault, result |-> r.result]
    /\ UNCHANGED <<storage_type, svcVars, cfgVars, pvVars, rqVars>>

\* get_recording(save_recording(file_data, filename, metadata))
RoundTrip ==
    /\ \E file_data \in Recordings, filename \in Filenames, metadata \in Metadatas,
          fault \in SaveFaults, ioOk \in BOOLEAN :
          LET r == save_recording(file_data, filename, metadata, fault) IN
          /\ files' = r.files
          /\ objects' = r.objects
          /\ saved' = IF r.result.exc = "None" THEN saved \cup {r.result.val[1]} ELSE saved
          /\ did' = [op |-> "roundtrip", file_data |-> file_data, filename |-> filename,
                     fault |-> fault, ioOk |-> ioOk, result |-> r.result,
                     got |-> IF r.result.exc = "None"
                             THEN get_recording(r.files, r.objects, r.result.val[1], ioOk)
                             ELSE r.result]
    /\ UNCHANGED <<storage_type, svcVars, cfgVars, pvVars, rqVars>>

GetRecording ==
    /\ \E storage_key \in Probes, ioOk \in BOOLEAN :
          did' = [op |-> "get", storage_key |-> storage_key, ioOk |-> ioOk,
                  result |-> get_recording(files, objects, storage_key, ioOk)]
    /\ UNCHANGED <<storage_type, files, objects, saved, svcVars, cfgVars, pvVars, rqVars>>

DeleteRecording ==
    /\ \E storage_key \in Probes, ioOk \in BOOLEAN, ioOk2 \in BOOLEAN :
          LET r == delete_recording(storage_key, ioOk, ioOk2) IN
          /\ files' = r.files
          /\ objects' = r.objects
          /\ did' = [op |-> "delete", storage_key |-> storage_key,
                     ioOk |-> ioOk, ioOk2 |-> ioOk2, result |-> r.result,
                     stored |-> HoldsRecording(files, objects, storage_key),
                     after |-> get_recording(r.files, r.objects, storage_key, TRUE),
                     sidecar |-> (storage_key \o ".json") \in DOMAIN r.files]
    /\ UNCHANGED <<storage_type, saved, svcVars, cfgVars, pvVars, rqVars>>

NextStorage ==
    \/ SaveRecording
    \/ RoundTrip
    \/ GetRecording
    \/ DeleteRecording

SpecStorage == InitStorage /\ [][NextStorage]_vars

(***************************************************************************)
(* services/ai-intelligence/main.py : two /estimate-effort requests in one *)
(* process.  The server accepts requests as they come and runs every       *)
(* handler as a task of one event loop.  estimate_effort is an `async def` *)
(* that holds no await: once started it runs to its return, the calls of   *)
(* Redis and of the provider blocking the loop.  A request is accepted     *)
(* (Accept) and later handled whole (Handle); which of the accepted        *)
(* requests is handled first is open.  The requests are handled within     *)
(* the ttl of a cache entry.                                               *)
(***************************************************************************)
RequestIds == {1, 2}

InitRequests ==
    /\ InitIntelligence
    /\ redis = EmptyStore
    /\ last = Idle
    /\ pending = <<>>
    /\ served = <<>>
    /\ NoManager
    /\ NoSelection
    /\ NoStorage

\* the request has been accepted: it waits or has been handled
Accepted(i) == i \in DOMAIN pending \/ \E k \in 1..Len(served) : served[k].id = i

\* the server reads the request and creates the task of its handler
Accept(i) ==
    /\ ~Accepted(i)
    /\ \A j \in RequestIds : j < i => Accepted(j)
    /\ \E description \in Descriptions, context \in Contexts :
          pending' = DictSet(pending, i, [description |-> description, context |-> context])
    /\ UNCHANGED <<svcVars, served, cfgVars, pvVars, stVars>>

\* the event loop runs the handler of one accepted request to its end
Handle(i) ==
    /\ i \in DOMAIN pending
    /\ \E getOk \in BOOLEAN, o \in EffortAnswers, setOk \in BOOLEAN :
          LET r == estimate_effort(pending[i].description, pending[i].context, getOk, o, setOk)
              env == [answer |-> o, getOk |-> getOk, setOk |-> setOk]
          IN
          /\ last' = (r.obs @@ [answer |-> o])
          /\ redis' = r.store
          /\ served' = Append(served, r.obs @@ env @@ [id |-> i, beside |-> DOMAIN pending \ {i}])
    /\ pending' = Without(pending, i)
    /\ UNCHANGED <<config, cfgVars, pvVars, stVars>>

NextRequests == \E i \in RequestIds : Accept(i) \/ Handle(i)

SpecRequests == InitRequests /\ [][NextRequests]_vars

(***************************************************************************)
(* Properties.  The events of a request are read through these.            *)
(***************************************************************************)
At(ev, x) == {i \in 1..Len(ev) : ev[i] = x}
Has(ev, x) == At(ev, x) # {}

CachingHandlers ==
    {"/estimate-effort", "/classify-energy", "/parse-task", "/detect-patterns", "/transcribe"}
UncachedHandlers ==
    {"/cluster-tasks", "/extract-commitments", "/analyze-patterns",
     "/transcribe-with-timestamps", "/translate"}
CallingHandlers == CachingHandlers \cup UncachedHandlers \cup {"/parse-bulk"}

\* the answer is one of the hardcoded fallback payloads
IsFallback(obs) ==
    \/ obs.body = EffortSafeDefaults
    \/ obs.body = EnergySafeDefault
    \/ obs.ep = "/parse-task" /\ obs.body.f.confidence = Num("0.3")

\* C1 as the specification states it: each of the eleven handlers looks up
\* the cache before its external call and, when the call succeeded, writes
\* to the cache after it.
C1_CacheAside ==
    last.ep \in CallingHandlers =>
        LET ev == last.events IN
        /\ \A c \in At(ev, "ai_call") : \E l \in At(ev, "cache_get") : l < c
        /\ (Has(ev, "ai_call") /\ ~Has(ev, "ai_raise")) =>
               \E w \in At(ev, "cache_set") : \E c \in At(ev, "ai_call") : c < w

\* C1 amended: estimate-effort, classify-energy, parse-task, detect-patterns
\* and transcribe look up the cache before any external call, call only
\* when the lookup gave nothing usable, and write to the cache as their
\* last step exactly when they return a result that is no fallback payload;
\* cluster-tasks, extract-commitments, analyze-patterns,
\* transcribe-with-timestamps and translate never touch the cache;
\* parse-bulk makes its own call first and touches the cache only after it.
C1_CacheAsideWhereImplemented ==
    LET ev == last.events IN
    /\ last.ep \in CachingHandlers =>
           /\ \A c \in At(ev, "ai_call") : \E l \in At(ev, "cache_get") : l < c
           /\ Has(ev, "ai_call") => (last.held = None \/ ~Truthy(last.held[1]))
           /\ \A w \in At(ev, "cache_set") :
                  w = Len(ev) /\ last.outcome = "return" /\ ~IsFallback(last)
           /\ (last.outcome = "return" /\ Has(ev, "ai_call") /\ ~IsFallback(last))
                  => Has(ev, "cache_set")
    /\ last.ep \in UncachedHandlers =>
           ~Has(ev, "cache_get") /\ ~Has(ev, "cache_set")
    /\ last.ep = "/parse-bulk" =>
           \A i \in At(ev, "cache_get") \cup At(ev, "cache_set") :
               i > 1 /\ ev[1] = "ai_call"

\* C1 witness: a caching handler missed, called the vendor and wrote
C1_Witness ==
    /\ last.ep = "/estimate-effort"
    /\ last.events = <<"cache_get", "ai_call", "cache_set">>
    /\ redis # EmptyStore

\* C2 as the specification states it: when Redis holds a value for the
\* request's key, the handler returns that value, calls no vendor and
\* writes nothing.
C2_HitReturnsStored ==
    (/\ last.ep \in {"/estimate-effort", "/classify-energy", "/parse-task",
                     "/detect-patterns", "/analyze-focus-time"}
     /\ last.held # None)
        => /\ last.outcome = "return"
           /\ last.body = last.held[1]
           /\ ~Has(last.events, "ai_call")
           /\ ~Has(last.events, "cache_set")

\* C3 as the specification states it: a /transcribe request whose key is
\* held by Redis returns the stored text with cached = true and does not
\* call the provider.
C3_RepeatedTranscribe ==
    (last.ep = "/transcribe" /\ last.held # None)
        => /\ last.outcome = "return"
           /\ last.body.f.text = last.held[1].f.text
           /\ last.body.f.cached = [py |-> "bool", b |-> TRUE]
           /\ ~Has(last.events, "ai_call")

\* C4 as the specification states it: a request ends with a return value
\* or an HTTPException, never with another exception.
C4_NoOtherException == last.outcome \in {"none", "return", "HTTPException"}

\* C5 as the specification states it: after a vendor call has raised, the
\* request makes no further vendor call.
C5_NoCallAfterRaise ==
    \A r \in At(last.events, "ai_raise") : \A c \in At(last.events, "ai_call") : c < r

\* C5 amended: no handler repeats a call.  Every handler but /parse-bulk
\* makes at most one vendor call in a request.  /parse-bulk makes its bulk
\* call first and nothing after it when it raised; on its fallback path it
\* makes at most one call for each task line, right after that line's cache
\* lookup, whether or not an earlier line's call raised.
C5_NoRepeatedCall ==
    LET ev == last.events IN
    /\ last.ep # "/parse-bulk" => Cardinality(At(ev, "ai_call")) <= 1
    /\ last.ep = "/parse-bulk" =>
           /\ ev # <<>> => ev[1] = "ai_call"
           /\ (Len(ev) >= 2 /\ ev[2] = "ai_raise") => Len(ev) = 2
           /\ \A c \in At(ev, "ai_call") : c > 1 => ev[c - 1] = "cache_get"
           /\ Cardinality(At(ev, "cache_get"))
                  <= Cardinality({i \in 1..Len(last.input.lines) :
                                      Len(last.input.lines[i]) > 3})

\* C5 witness: /parse-bulk went on to call the vendor for the next line
\* after a line's call had raised
C5_Witness ==
    /\ last.ep = "/parse-bulk"
    /\ \E r \in At(last.events, "ai_raise") : \E c \in At(last.events, "ai_call") : r < c

\* C6 as the specification states it: with the service configured, an
\* upload of more than 25 MB is answered 413 and never transcribed.
C6_TooLargeIs413 ==
    (/\ last.ep \in {"/transcribe", "/transcribe-with-timestamps"}
     /\ openai_api_key
     /\ last.input.file.len > 25 * 1024 * 1024)
        => last.status = 413 /\ ~Has(last.events, "ai_call")

\* C7 as the specification states it: with provider "ollama" and
\* faster-whisper there, /transcribe is not refused for want of an OpenAI
\* key: a request that nothing else stops reaches the local model.
C7_OllamaTranscribesLocally ==
    (/\ last.ep = "/transcribe"
     /\ ai_provider = "ollama"
     /\ FASTER_WHISPER_AVAILABLE)
        => last.status # 503

\* the environment variable of a key, as the specification names it
C8_EnvName(key) == IF key = "a.b" THEN "A_B" ELSE "SYSTEM_ALLOW_ENV_OVERRIDE"

\* C8 as the specification states it: get answers the environment variable
\* when the stored system.allow_env_override is 'true' (or has no row),
\* otherwise the row of the key, otherwise the default; and never the
\* environment variable when the stored value is anything but 'true'.
C8_EnvThenDatabaseThenDefault ==
    (got.op = "get" /\ ~got.force_db) =>
        LET name == C8_EnvName(got.key)
            allowed == AllowKey \notin DOMAIN table \/ table[AllowKey] = "true"
        IN
        /\ ~allowed => got.source # "env"
        /\ IF allowed /\ name \in DOMAIN environ
           THEN got.result = Ok(Str(environ[name]))
           ELSE IF got.key \in DOMAIN table
           THEN got.result = Ok(Str(table[got.key]))
           ELSE got.result = Ok(got.default)

\* the environment's text cast to the type of the default
C8_Cast(text, default) ==
    IF default = Null THEN Ok(Str(text))
    ELSE IF text = "7" THEN Ok(PyInt(7))
    ELSE Exc("ValueError")

\* C8 amended: get first finds system.allow_env_override for itself: the
\* cached value, or the row, or 'true' when neither is to be had.  When
\* that value lower-cased is 'true' and the environment variable of the key
\* is set, get answers the variable cast to the type of the default, or
\* raises ValueError when it cannot be cast.  Otherwise it answers the
\* cached value of the key, or the row of the key, or the default, the
\* default only when the table has no row, there is no connection or the
\* query was made and failed.  The environment variable is never answered
\* when the value found, lower-cased, is not 'true'.
C8_OverrideAsResolved ==
    (got.op = "get" /\ ~got.force_db) =>
        LET name == C8_EnvName(got.key)
            allow == got.allow[1]
        IN
        /\ \/ allow = Str("true")
           \/ AllowKey \in DOMAIN _cache /\ allow = _cache[AllowKey]
        /\ Has(got.queried, AllowKey) /\ allow # Str("true")
               => AllowKey \in DOMAIN table /\ allow = Str(table[AllowKey])
        /\ IF Lower(allow.s) = "true" /\ name \in DOMAIN environ
           THEN /\ got.source = "env"
                /\ got.result = C8_Cast(environ[name], got.default)
           ELSE /\ got.source \in {"cache", "db", "default"}
                /\ got.source = "cache" =>
                       got.key \in DOMAIN _cache /\ got.result = Ok(_cache[got.key])
                /\ got.source = "db" =>
                       got.key \in DOMAIN table /\ got.result = Ok(Str(table[got.key]))
                /\ got.source = "default" =>
                       /\ got.result = Ok(got.default)
                       /\ \/ got.key \notin DOMAIN table
                          \/ ~_conn
                          \/ Has(got.queried, got.key)

\* C8 witness: the row says 'TRUE' and get answered the environment variable
C8_Witness ==
    /\ got.op = "get" /\ ~got.force_db
    /\ got.source = "env"
    /\ AllowKey \in DOMAIN table /\ table[AllowKey] = "TRUE"
    /\ got.allow = Some(Str("TRUE"))
    /\ got.result = Ok(PyInt(7))

\* C9 as the specification states it: a value that get answers from the
\* cache was read from the table less than 60 seconds before.
C9_CachedLessThanSixtySeconds ==
    (got.op = "get" /\ got.source = "cache") => (got.age >= 0 /\ got.age < 60)

\* the order the specification gives
C10_Order == <<"anthropic", "openai", "ollama", "bedrock">>

\* C10: when get_best_available_provider has ended, it has returned the
\* first provider in the order Anthropic, OpenAI, Ollama, Bedrock whose
\* client was built and reports is_available(), and it has raised
\* RuntimeError when there is none; what it returned is available.
C10_FirstAvailable ==
    chosen # "pending" =>
        LET available == {i \in 1..4 : /\ ~get_ai_client_raises(installed)
                                        /\ is_available(C10_Order[i], installed)}
        IN
        IF available = {} THEN chosen = "RuntimeError"
        ELSE \E i \in available :
                 /\ chosen = C10_Order[i]
                 /\ \A j \in available : i <= j

\* C10 witness: Ollama was returned, Anthropic and OpenAI being unavailable
\* and Bedrock available
C10_Witness ==
    /\ chosen = "ollama"
    /\ installed.ollama_up
    /\ is_available("bedrock", installed)
    /\ ~is_available("anthropic", installed)

\* the request reached the point where the vendor is asked and the vendor
\* answered with a text that spells no JSON value
C11_Unparseable ==
    /\ last.ep = "/estimate-effort"
    /\ last.input.context # None
    /\ last.held = None
    /\ last.answer.kind = "text" /\ last.answer.json = None
    /\ \/ USE_SHARED_LIBS /\ Has(last.events, "ai_call")
       \/ ~USE_SHARED_LIBS /\ ai_client = LegacyClient

\* C11 as the specification states it: when the vendor's answer to
\* /estimate-effort cannot be parsed as JSON, the request is answered 200
\* with the safe defaults, with the shared provider and with the direct
\* Anthropic client alike.
C11_UnparseableGivesDefaults ==
    C11_Unparseable =>
        /\ last.outcome = "return" /\ last.status = 200
        /\ last.body = Dict([estimated_hours |-> Num("0.5"), confidence |-> Num("0.3"),
                             reasoning |-> Str("Unable to parse AI response"),
                             breakdown |-> List(<<>>)])

\* C12 as the specification states it: every 200 answer of /classify-energy
\* names one of the five energy levels.
C12_EnergyLevelIsOneOfFive ==
    (last.ep = "/classify-energy" /\ last.outcome = "return") =>
        /\ last.body.py = "dict"
        /\ "energy_level" \in DOMAIN last.body.f
        /\ last.body.f["energy_level"].py = "str"
        /\ last.body.f["energy_level"].s \in
               {"deep_work", "focused", "administrative", "collaborative", "creative"}

\* C13 as the specification states it: without a database pool
\* /analyze-patterns answers 503 and neither queries nor asks the vendor.
C13_NoPoolIs503 ==
    (last.ep = "/analyze-patterns" /\ ~db_pool) =>
        /\ last.outcome = "HTTPException" /\ last.status = 503
        /\ last.events = <<>>

\* C14 as the specification states it: /extract-commitments answers the
\* JSON array of the vendor's text with its length, and an empty list with
\* count 0 when the text holds none.
C14_CommitmentsOfTheAnswer ==
    (/\ last.ep = "/extract-commitments"
     /\ last.answer.kind = "text" /\ last.answer.marks = "none")
        => /\ last.outcome = "return"
           /\ last.body =
                  IF last.answer.json # None /\ last.answer.json[1].py = "list"
                  THEN Dict([commitments |-> last.answer.json[1],
                             count |-> [py |-> "int",
                                        n |-> Len(last.answer.json[1].items)]])
                  ELSE Dict([commitments |-> List(<<>>),
                             count |-> [py |-> "int", n |-> 0]])

\* C15 as the specification states it: reading back what save_recording
\* returned gives exactly the bytes saved, for every filename and in both
\* modes, and get_recording of a path that was never saved returns None
\* (no call of the filesystem or of S3 failing).
C15_RoundTrip ==
    /\ (did.op = "roundtrip" /\ did.fault = "none" /\ did.ioOk)
           => did.got = Ok(Some(did.file_data))
    /\ (did.op = "get" /\ did.ioOk /\ did.storage_key \notin saved)
           => did.result = Ok(None)

\* C16 as the specification states it: delete_recording(k) returns True
\* exactly when a recording stored at k was removed; after True,
\* get_recording(k) returns None and the sidecar of k is gone.
C16_TrueIffRemoved ==
    did.op = "delete" =>
        /\ did.result = (did.stored /\ did.after = Ok(None))
        /\ did.result => (did.after = Ok(None) /\ ~did.sidecar)

\* a Redis call of the /parse-task request failed
C17_CacheFailed ==
    /\ redis_client
    /\ \/ ~last.answer.getOk
       \/ Has(last.events, "cache_set") /\ ~last.answer.setOk
\* the model, the database behind get_ai_model or the parsing of the text
\* raised
C17_CallFailed ==
    \/ Has(last.events, "ai_raise")
    \/ Extracted[last.input.text].deadline.exc # "None"
C17_IsFallback ==
    /\ last.body.py = "ParsedTask"
    /\ last.body.f.title = Str(Prefix(last.input.text, 50))
    /\ last.body.f.priority = Str("medium")
    /\ last.body.f.confidence = Num("0.3")
C17_AnswersParsedTask ==
    /\ last.outcome = "return" /\ last.status = 200
    /\ last.body.py \in {"ParsedTask", "dict"}
    /\ last.body.f.title.py = "str"
    /\ last.body.f.confidence \in {Num("0.9"), Num("0.6"), Num("0.3")}

\* C17 as the specification states it: /parse-task always returns a
\* ParsedTask whose confidence is 0.9, 0.6 or 0.3, and on a failure of the
\* cache, of the database or of the AI provider the result is the fallback
\* (first 50 characters as title, priority medium, confidence 0.3).
C17_FallbackOnAnyFailure ==
    last.ep = "/parse-task" =>
        /\ C17_AnswersParsedTask
        /\ (C17_CacheFailed \/ C17_CallFailed) => C17_IsFallback

\* C17 amended: /parse-task always returns a ParsedTask whose confidence is
\* 0.9, 0.6 or 0.3; the result is the fallback when the parsing, the
\* database or the AI provider raised, and only when the request raised
\* outside the cache; a failure of Redis alone is handled as a miss: the
\* confidence is 0.6 when the answer holds no JSON and 0.9 when its JSON
\* is a task.
C17_FallbackOnCallFailure ==
    last.ep = "/parse-task" =>
        /\ C17_AnswersParsedTask
        /\ C17_CallFailed => C17_IsFallback
        /\ last.body.f.confidence = Num("0.3") => C17_IsFallback
        /\ (C17_CacheFailed /\ ~C17_CallFailed /\ last.answer = (Prose("none") @@ last.answer))
               => last.body.f.confidence = Num("0.6")
        /\ (C17_CacheFailed /\ ~C17_CallFailed /\ last.answer = (Text(FALSE, Some(TaskDict)) @@ last.answer)
               /\ last.held = None)
               => last.body.f.confidence = Num("0.9")

\* the model raised on a /parse-task request and the fallback was returned
C17_Witness ==
    /\ last.ep = "/parse-task"
    /\ Has(last.events, "ai_raise")
    /\ C17_IsFallback

\* C18 as the specification states it: two /estimate-effort requests whose
\* (description, context) pairs differ get different cache keys, and the
\* later one finds nothing under its key that the other has stored.
C18_DifferentPairsDifferentKeys ==
    \A j, k \in 1..Len(served) :
        (j < k /\ served[j].input # served[k].input) =>
            /\ (served[j].input.context # None /\ served[k].input.context # None) =>
                  get_cache_key("effort", served[j].input.description \o served[j].input.context[1])
                      # get_cache_key("effort", served[k].input.description \o served[k].input.context[1])
            /\ served[k].held = None

\* the external AI calls of the k-th handled request
C19_Calls(k) ==
    Cardinality({n \in 1..Len(served[k].events) : served[k].events[n] = "ai_call"})
\* two requests with the same description and context, the second accepted
\* before the first was handled, Redis answering every call, the provider
\* called by the first and answering with a text
C19_Concurrent ==
    /\ Len(served) = 2
    /\ served[1].beside # {}
    /\ served[1].input = served[2].input
    /\ redis_client
    /\ \A k \in 1..2 : served[k].getOk /\ served[k].setOk /\ served[k].answer.kind = "text"
    /\ C19_Calls(1) = 1
C19_SameResult ==
    /\ served[1].outcome = served[2].outcome
    /\ served[1].status = served[2].status
    /\ served[1].body = served[2].body
\* the first request returned the estimate of the provider
C19_Estimated ==
    /\ served[1].outcome = "return"
    /\ served[1].body = served[1].answer.json[1]

\* C19 as the specification states it: the two requests cause exactly one
\* external AI call and receive the same result.
C19_OneCallSameResult ==
    C19_Concurrent => (C19_Calls(1) + C19_Calls(2) = 1 /\ C19_SameResult)

\* C19 amended: when the provider's answer to the first request is a JSON
\* object with the four estimate fields, the second request is answered
\* from the cache: one external call, the same result.  Any other answer
\* is not cached and the second request calls the provider itself.
C19_OneCallWhenEstimated ==
    C19_Concurrent =>
        IF served[1].answer.json # None /\ C19_Estimated
        THEN /\ C19_Calls(2) = 0
             /\ served[2].held = Some(served[1].body)
             /\ C19_SameResult
        ELSE /\ served[2].held = None
             /\ C19_Calls(2) = 1

\* two concurrent requests, the second answered from the first one's entry
C19_Witness ==
    /\ C19_Concurrent
    /\ served[1].answer.json # None /\ C19_Estimated
    /\ C19_Calls(2) = 0
    /\ served[2].events = <<"cache_get">>

=============================================================================
